---- MODULE Spec2Model ----
(***************************************************************************)
(* Presubmit result reporting ("presubmit result"): runResult reads the    *)
(* per-shard status files, postTestReport builds the report (summary,      *)
(* NEW / KNOWN / FIXED groups, links) and posts it to Gerrit.              *)
(*                                                                         *)
(* Strings are sequences of one-character strings, so that the string      *)
(* transformations of the code (Replace, LastIndex, Sprintf, sort.Strings) *)
(* are computed character by character.                                    *)
(*                                                                         *)
(* Further commands, each with a specification of its own: the worker pool *)
(* of goBuild / goTest (SpecGoPool), runTestScripts with its signal        *)
(* handler (SpecTestScripts), nodeInfos.run of vcloud (SpecNodeRun,        *)
(* FairSpecNodeRun), the per-node function of "vcloud run"                 *)
(* (SpecCopyAndRun), runGo of "jiri go" (SpecRunGo), runTest of "presubmit *)
(* test" (SpecRunTest), and filterExcludedTests and identifyPackagesToTest *)
(* of the test library (SpecFilterExcludedTests, SpecIdentifyPackages).    *)
(***************************************************************************)
EXTENDS Integers, Sequences, FiniteSets, TLC

VARIABLES
    workspace,        \* the shard directories under $WORKSPACE/test_results/<n>
    pc,               \* position of the pass
    testResults,      \* []testResultInfo built by runResult
    masterResult,     \* what reportFailedPresubmitBuild got from Jenkins
    jenkinsJobs,      \* per shard: the postsubmit job as Jenkins answers during the pass
    report,           \* the report buffer (sequence of sections)
    failedTestNames,  \* result of reportTestResultsSummary
    idx,              \* loop index of genFailedTestCasesGroupsForAllTests
    seenTests,        \* map test key -> times seen
    groups,           \* failedTestCasesGroups
    shardLog,         \* per processed shard: what the loop body did
    numNewFailures,   \* result of reportFailedTestCases
    postCalls,        \* the calls of postMessage: <<message, success>>
    reviews,          \* the calls of gerrit.PostReview
    retval,           \* what postTestReport / runResult returned
    gerritLog,        \* per call of postMessage: what Gerrit did during it
    goPool,           \* goBuild / goTest: the worker pool and its two channels
    testScripts,      \* runTestScripts: workers, channels and the signal handler
    nodeRun,          \* vcloud: nodeInfos.run and the goroutines it spawns
    goCmd,            \* jiri go: runGo and the steps before the go tool
    presubmitTest     \* presubmit test: runTest and its attempts to prepare the branch

\* The state of the presubmit result command.
presubmitVars == <<workspace, pc, testResults, masterResult, jenkinsJobs, report,
                   failedTestNames, idx, seenTests, groups, shardLog, numNewFailures,
                   postCalls, reviews, retval, gerritLog>>

\* The state of the other commands.
otherVars == <<goPool, testScripts, nodeRun, goCmd, presubmitTest>>

\* The state of a command that is not running.
NotRunning == [pc |-> "idle"]

vars == <<presubmitVars, otherVars>>

----------------------------------------------------------------------------
(* Strings *)

\* The printable ASCII characters in byte order, starting at 32 (the backtick
\* cannot be written in a string of this language; its slot keeps the order).
AsciiTable ==
    << " ", "!", "\"", "#", "$", "%", "&", "'", "(", ")", "*", "+", ",", "-", ".", "/",
       "0", "1", "2", "3", "4", "5", "6", "7", "8", "9", ":", ";", "<", "=", ">", "?",
       "@", "A", "B", "C", "D", "E", "F", "G", "H", "I", "J", "K", "L", "M", "N", "O",
       "P", "Q", "R", "S", "T", "U", "V", "W", "X", "Y", "Z", "[", "\\", "]", "^", "_",
       "<backtick>", "a", "b", "c", "d", "e", "f", "g", "h", "i", "j", "k", "l", "m", "n", "o",
       "p", "q", "r", "s", "t", "u", "v", "w", "x", "y", "z", "{", "|", "}", "~" >>

\* The byte of a character ("\n" is the only character below 32 that occurs).
Byte(c) ==
    IF c = "\n" THEN 10
    ELSE 31 + (CHOOSE i \in 1..Len(AsciiTable) : AsciiTable[i] = c)

RECURSIVE StrLess(_, _)
\* a < b as Go compares strings: byte-wise, a proper prefix is smaller.
StrLess(a, b) ==
    IF b = <<>> THEN FALSE
    ELSE IF a = <<>> THEN TRUE
    ELSE IF Head(a) # Head(b) THEN Byte(Head(a)) < Byte(Head(b))
    ELSE StrLess(Tail(a), Tail(b))

IsPrefix(p, s) == Len(p) <= Len(s) /\ SubSeq(s, 1, Len(p)) = p

RECURSIVE Replace(_, _, _)
\* strings.Replace(s, old, new, -1) for a non-empty old.
Replace(s, old, new) ==
    IF s = <<>> THEN <<>>
    ELSE IF IsPrefix(old, s)
         THEN new \o Replace(SubSeq(s, Len(old) + 1, Len(s)), old, new)
         ELSE <<Head(s)>> \o Replace(Tail(s), old, new)

Contains(s, c) == \E i \in 1..Len(s) : s[i] = c

\* strings.LastIndex(s, c), as a 1-based position (0 when absent).
LastIndex(s, c) ==
    IF Contains(s, c)
    THEN CHOOSE i \in 1..Len(s) : s[i] = c /\ \A j \in (i+1)..Len(s) : s[j] # c
    ELSE 0

Digits == <<"0", "1", "2", "3", "4", "5", "6", "7", "8", "9">>

RECURSIVE Itoa(_)
\* fmt.Sprintf("%d", n) for n >= 0.
Itoa(n) == IF n < 10 THEN <<Digits[n + 1]>> ELSE Itoa(n \div 10) \o <<Digits[(n % 10) + 1]>>

RECURSIVE Join(_, _)
\* strings.Join(ss, sep)
Join(ss, sep) ==
    IF ss = <<>> THEN <<>>
    ELSE IF Len(ss) = 1 THEN ss[1]
    ELSE ss[1] \o sep \o Join(Tail(ss), sep)

----------------------------------------------------------------------------
(* Names and statuses *)

Str_slave == <<"-", "s", "l", "a", "v", "e">>
Str_linux_slave == <<"l", "i", "n", "u", "x">> \o Str_slave
Str_vanadium == <<"v", "a", "n", "a", "d", "i", "u", "m">>
Str_go_test == <<"-", "g", "o", "-", "t", "e", "s", "t">>
Str_go_build == <<"-", "g", "o", "-", "b", "u", "i", "l", "d">>
Str_vanadium_go_test == Str_vanadium \o Str_go_test
Str_vanadium_go_build == Str_vanadium \o Str_go_build
Str_vanadium_www == Str_vanadium \o <<"-", "w", "w", "w">>

\* testutil.TestResult.Status
TestPassed == "TestPassed"
TestFailed == "TestFailed"
TestTimedOut == "TestTimedOut"
TestSkipped == "TestSkipped"
TestFailedMergeConflict == "TestFailedMergeConflict"

unknownStatus == "UNKNOWN"

fixedFailure == "FIXED FAILURE"
newFailure == "NEW FAILURE"
knownFailure == "KNOWN FAILURE"
failureTypes == {fixedFailure, newFailure, knownFailure}

multiConfigurationJobs ==
    { <<"t", "h", "i", "r", "d", "_", "p", "a", "r", "t", "y">> \o Str_go_test,
      Str_vanadium \o Str_go_build,
      Str_vanadium \o Str_go_test,
      Str_vanadium \o <<"-", "i", "n", "t", "e", "g", "r", "a", "t", "i", "o", "n", "-", "t", "e", "s", "t">> }

isMultiConfigurationJob(jobName) == jobName \in multiConfigurationJobs

----------------------------------------------------------------------------
(* Identity and links *)

\* html.UnescapeString: a decoded XML attribute is a sequence of lexemes, each a
\* character or one entity reference; every reference becomes its character.
HtmlEntities ==
    [x \in {"&lt;", "&gt;", "&amp;", "&#34;", "&#39;"} |->
        CASE x = "&lt;" -> "<" [] x = "&gt;" -> ">" [] x = "&amp;" -> "&"
          [] x = "&#34;" -> "\"" [] x = "&#39;" -> "'"]

UnescapeString(s) ==
    [i \in 1..Len(s) |-> IF s[i] \in DOMAIN HtmlEntities THEN HtmlEntities[s[i]] ELSE s[i]]

\* A variant of genTestFullName that replaces the first period only.
genTestFullName_FirstPeriodOnly(className, testName) ==
    LET testFullName == className \o <<".">> \o testName
        i == CHOOSE k \in 1..Len(testFullName) :
                 testFullName[k] = "." /\ \A j \in 1..(k - 1) : testFullName[j] # "."
    IN  SubSeq(testFullName, 1, i - 1) \o <<":", ":">>
          \o SubSeq(testFullName, i + 1, Len(testFullName))

genTestFullName(className, testName) ==
    Replace(className \o <<".">> \o testName, <<".">>, <<":", ":">>)

IdentifierChars ==
    { AsciiTable[i] : i \in 17..26 } \cup { AsciiTable[i] : i \in 34..59 }
      \cup { AsciiTable[i] : i \in 66..91 } \cup {"_"}

URLUnsafeChars == {"\\", "/", ":", "?", "#", "%"}

safePackageOrClassName(name) ==
    [i \in 1..Len(name) |-> IF name[i] \in URLUnsafeChars THEN "_" ELSE name[i]]

safeTestName(name) ==
    [i \in 1..Len(name) |-> IF name[i] \in IdentifierChars THEN name[i] ELSE "_"]

HexChars == { AsciiTable[i] : i \in 17..26 } \cup {"a", "b", "c", "d", "e", "f", "A", "B", "C", "D", "E", "F"}

\* url.Parse(rawurl) fails on a "%" that does not start a two-digit hex escape.
UrlParseOk(rawurl) ==
    \A i \in 1..Len(rawurl) :
        rawurl[i] = "%" =>
            /\ i + 2 <= Len(rawurl)
            /\ rawurl[i + 1] \in HexChars
            /\ rawurl[i + 2] \in HexChars

Str_vpst == <<"h", "t", "t", "p", ":", "/", "/", "g", "o", "t", "o", ".", "g", "o", "o", "g", "l", "e",
              ".", "c", "o", "m", "/", "v", "p", "s", "t", "/">>
Str_testReport == <<"/", "t", "e", "s", "t", "R", "e", "p", "o", "r", "t", "/">>
Str_notAvailable == <<"\n", " ", " ", "R", "e", "s", "u", "l", "t", " ", "l", "i", "n", "k", " ",
                      "n", "o", "t", " ", "a", "v", "a", "i", "l", "a", "b", "l", "e">>
Str_root == <<"(", "r", "o", "o", "t", ")">>

\* -build_number of the presubmit master build
jenkinsBuildNumberFlag == 45

\* A variant of genTestResultLink that appends the suffix from the first
\* encounter on.
genTestResultLink_SuffixFromOne(className, testCaseName, suffix, testName, slaveLabel) ==
    LET testFullName == genTestFullName(className, testCaseName)
        lastDotIndex == LastIndex(className, ".")
        packageName == IF Contains(className, ".")
                       THEN SubSeq(className, 1, lastDotIndex - 1) ELSE Str_root
        class == IF Contains(className, ".")
                 THEN SubSeq(className, lastDotIndex + 1, Len(className)) ELSE className
        rawurl == Str_vpst \o Itoa(jenkinsBuildNumberFlag) \o <<"/", "L", "=">> \o slaveLabel
                    \o <<",", "T", "E", "S", "T", "=">> \o testName \o Str_testReport
                    \o safePackageOrClassName(packageName) \o <<"/">>
                    \o safePackageOrClassName(class) \o <<"/">> \o safeTestName(testCaseName)
        link == <<"-", " ">> \o testFullName \o <<"\n">> \o rawurl
    IN  IF UrlParseOk(rawurl)
        THEN (IF suffix > 0 THEN link \o <<"_">> \o Itoa(suffix) ELSE link)
        ELSE <<"-", " ">> \o testFullName \o Str_notAvailable

\* genTestResultLink: the text and the link of one entry of a group.
genTestResultLink(className, testCaseName, suffix, testName, slaveLabel) ==
    LET testFullName == genTestFullName(className, testCaseName)
        lastDotIndex == LastIndex(className, ".")
        packageName == IF Contains(className, ".")
                       THEN SubSeq(className, 1, lastDotIndex - 1) ELSE Str_root
        class == IF Contains(className, ".")
                 THEN SubSeq(className, lastDotIndex + 1, Len(className)) ELSE className
        rawurl == Str_vpst \o Itoa(jenkinsBuildNumberFlag) \o <<"/", "L", "=">> \o slaveLabel
                    \o <<",", "T", "E", "S", "T", "=">> \o testName \o Str_testReport
                    \o safePackageOrClassName(packageName) \o <<"/">>
                    \o safePackageOrClassName(class) \o <<"/">> \o safeTestName(testCaseName)
        link == <<"-", " ">> \o testFullName \o <<"\n">> \o rawurl
    IN  IF UrlParseOk(rawurl)
        THEN (IF suffix > 1 THEN link \o <<"_">> \o Itoa(suffix) ELSE link)
        ELSE <<"-", " ">> \o testFullName \o Str_notAvailable

----------------------------------------------------------------------------
(* Jenkins: the postsubmit job of a shard *)

\* jenkins.TestCase.Equal
TestCaseEqual(t, t2) == t.ClassName = t2.ClassName /\ t.Name = t2.Name

\* The failing cases of a test report: the cases with status FAILED or REGRESSION.
parseFailedTestCases(cases) ==
    SelectSeq(cases, LAMBDA c : c.Status = "FAILED" \/ c.Status = "REGRESSION")

\* The build spec a shard's postsubmit job is looked up by.
lastCompletedBuildSpec(jobName, slaveLabel) ==
    IF isMultiConfigurationJob(jobName)
    THEN jobName \o <<"/", "L", "=">> \o slaveLabel
    ELSE jobName

\* The last completed build of a job (its number is its position in job.builds).
lastCompletedBuild(job) == job.builds[Len(job.builds)]

\* A variant of getFailedTestCases that reads the report of the first build of
\* the job instead of the last completed one.
getFailedTestCases_FirstBuild(job) ==
    IF job.unreachable \/ job.builds = <<>> \/ ~lastCompletedBuild(job).reportOk
    THEN [cases |-> <<>>, err |-> TRUE]
    ELSE [cases |-> parseFailedTestCases(job.builds[1].cases), err |-> FALSE]

\* getFailedTestCases: the failing cases of the last completed build; the list is
\* empty whenever an error is returned.
getFailedTestCases(job) ==
    IF job.unreachable \/ job.builds = <<>> \/ ~lastCompletedBuild(job).reportOk
    THEN [cases |-> <<>>, err |-> TRUE]
    ELSE [cases |-> parseFailedTestCases(lastCompletedBuild(job).cases), err |-> FALSE]

RECURSIVE postSubmitStatusFrom(_, _, _)
\* The loop of getPostSubmitBuildStatus, from build number i downwards.
postSubmitStatusFrom(job, i, timestamp) ==
    IF i < 0 THEN unknownStatus
    ELSE IF i \notin 1..Len(job.builds) THEN unknownStatus   \* BuildInfoForSpec fails
    ELSE IF job.builds[i].Timestamp > timestamp THEN postSubmitStatusFrom(job, i - 1, timestamp)
    ELSE lastCompletedBuild(job).Result

\* A variant of getPostSubmitBuildStatus that goes on with the result of the
\* last completed build when its id is not a number.
getPostSubmitBuildStatus_IgnoreAtoi(job, timestamp) ==
    IF job.unreachable \/ job.builds = <<>> THEN unknownStatus
    ELSE IF ~job.idNumeric THEN lastCompletedBuild(job).Result
    ELSE postSubmitStatusFrom(job, Len(job.builds), timestamp)

getPostSubmitBuildStatus(job, timestamp) ==
    IF job.unreachable \/ job.builds = <<>> THEN unknownStatus
    ELSE IF ~job.idNumeric THEN unknownStatus
    ELSE postSubmitStatusFrom(job, Len(job.builds), timestamp)

----------------------------------------------------------------------------
(* Classification of one shard *)

noGroups == [t \in failureTypes |-> <<>>]

\* The test cases of a report in document order, each with the name of its suite.
RECURSIVE FlattenSuites(_)
FlattenSuites(suites) ==
    IF suites = <<>> THEN <<>>
    ELSE [i \in 1..Len(Head(suites).Testcases) |->
            [Suite |-> Head(suites).Name,
             Classname |-> Head(suites).Testcases[i].Classname,
             Name |-> Head(suites).Testcases[i].Name,
             Failure |-> Head(suites).Testcases[i].Failure]]
         \o FlattenSuites(Tail(suites))

\* Class name and name of a case as the loop uses them.
CaseClassname(c) == UnescapeString(IF c.Classname = <<>> THEN c.Suite ELSE c.Classname)
CaseName(c) == UnescapeString(c.Name)

testKeyOf(className, name, slaveLabel) ==
    LET testFullName == genTestFullName(className, name)
    IN  IF slaveLabel # <<>> THEN testFullName \o <<"-">> \o slaveLabel ELSE testFullName

Incr(seen, k) ==
    IF k \in DOMAIN seen THEN [seen EXCEPT ![k] = @ + 1] ELSE seen @@ (k :> 1)

SeenCount(seen, k) == IF k \in DOMAIN seen THEN seen[k] ELSE 0

\* A variant of isNewFailure that compares the test names only, so that a
\* failure of another class with the same test name passes for a known one.
isNewFailure_NameOnly(className, name, postsubmitFailedTestCases) ==
    ~ \E i \in 1..Len(postsubmitFailedTestCases) : name = postsubmitFailedTestCases[i].Name

isNewFailure(className, name, postsubmitFailedTestCases) ==
    ~ \E i \in 1..Len(postsubmitFailedTestCases) :
         /\ className = postsubmitFailedTestCases[i].ClassName
         /\ name = postsubmitFailedTestCases[i].Name

RECURSIVE CasesLoop(_, _, _, _, _)
\* The loop over the test cases of one report; acc = [seen, new, known, cur].
CasesLoop(cases, testName, slaveLabel, postsubmitFailedTestCases, acc) ==
    IF cases = <<>> THEN acc
    ELSE
      LET className == CaseClassname(Head(cases))
          name == CaseName(Head(cases))
          testKey == testKeyOf(className, name, slaveLabel)
          seen == Incr(acc.seen, testKey)
          linkInfo == [className |-> className, testCaseName |-> name,
                       seenTestsCount |-> seen[testKey],
                       testName |-> testName, slaveLabel |-> slaveLabel]
          failed == Head(cases).Failure # <<>>
          isNew == isNewFailure(className, name, postsubmitFailedTestCases)
      IN  CasesLoop(Tail(cases), testName, slaveLabel, postsubmitFailedTestCases,
            [seen |-> seen,
             new |-> IF failed /\ isNew THEN Append(acc.new, linkInfo) ELSE acc.new,
             known |-> IF failed /\ ~isNew THEN Append(acc.known, linkInfo) ELSE acc.known,
             cur |-> IF failed
                     THEN Append(acc.cur, [ClassName |-> className, Name |-> name])
                     ELSE acc.cur])

\* A variant of fixedFailures that lists every postsubmit failure as fixed,
\* whether or not it still fails in the shard.
fixedFailures_All(postsubmitFailedTestCases, curFailedTestCases) ==
    [i \in 1..Len(postsubmitFailedTestCases) |->
        [className |-> postsubmitFailedTestCases[i].ClassName,
         testCaseName |-> postsubmitFailedTestCases[i].Name,
         seenTestsCount |-> 0, testName |-> <<>>, slaveLabel |-> <<>>]]

\* A variant of fixedFailures that lists nothing when the shard has no failing
\* case.
fixedFailures_NoneWhenAllPass(postsubmitFailedTestCases, curFailedTestCases) ==
    IF curFailedTestCases = <<>> THEN <<>>
    ELSE LET gone(p) == ~ \E i \in 1..Len(curFailedTestCases) : TestCaseEqual(p, curFailedTestCases[i])
             kept == SelectSeq(postsubmitFailedTestCases, gone)
         IN  [i \in 1..Len(kept) |->
                 [className |-> kept[i].ClassName, testCaseName |-> kept[i].Name,
                  seenTestsCount |-> 0, testName |-> <<>>, slaveLabel |-> <<>>]]

\* The fixed failure group of one shard.
fixedFailures(postsubmitFailedTestCases, curFailedTestCases) ==
    LET fixed(p) == ~ \E i \in 1..Len(curFailedTestCases) : TestCaseEqual(p, curFailedTestCases[i])
        kept == SelectSeq(postsubmitFailedTestCases, fixed)
    IN  [i \in 1..Len(kept) |->
            [className |-> kept[i].ClassName, testCaseName |-> kept[i].Name,
             seenTestsCount |-> 0, testName |-> <<>>, slaveLabel |-> <<>>]]

\* A report file: absent, not decodable by xml.Unmarshal, or a list of suites.
MissingFile == [kind |-> "missing", Testsuites |-> <<>>]
XUnitFile(suites) == [kind |-> "xml", Testsuites |-> suites]
\* suites: what xml.Unmarshal had decoded when it failed.
MalformedXUnitFile(suites) == [kind |-> "malformed", Testsuites |-> suites]

\* A variant of genFailedTestCasesGroupsForOneTest that ignores the error of
\* xml.Unmarshal and classifies the suites decoded before it.
genFailedTestCasesGroupsForOneTest_IgnoreError(testResult, xunit, seen, postsubmitFailedTestCases) ==
    LET acc == CasesLoop(FlattenSuites(xunit.Testsuites), testResult.TestName, testResult.SlaveLabel,
                         postsubmitFailedTestCases,
                         [seen |-> seen, new |-> <<>>, known |-> <<>>, cur |-> <<>>])
    IN  [err |-> FALSE,
         groups |-> [t \in failureTypes |->
                       CASE t = newFailure -> acc.new
                         [] t = knownFailure -> acc.known
                         [] t = fixedFailure ->
                              LET gone(p) == ~ \E i \in 1..Len(acc.cur) : TestCaseEqual(p, acc.cur[i])
                                  kept == SelectSeq(postsubmitFailedTestCases, gone)
                              IN  [i \in 1..Len(kept) |->
                                     [className |-> kept[i].ClassName, testCaseName |-> kept[i].Name,
                                      seenTestsCount |-> 0, testName |-> <<>>, slaveLabel |-> <<>>]]],
         seen |-> acc.seen]

\* genFailedTestCasesGroupsForOneTest: [err, groups, seen].
genFailedTestCasesGroupsForOneTest(testResult, xunit, seen, postsubmitFailedTestCases) ==
    IF xunit.kind = "malformed"
    THEN [err |-> TRUE, groups |-> noGroups, seen |-> seen]
    ELSE
      LET acc == CasesLoop(FlattenSuites(xunit.Testsuites), testResult.TestName, testResult.SlaveLabel,
                           postsubmitFailedTestCases,
                           [seen |-> seen, new |-> <<>>, known |-> <<>>, cur |-> <<>>])
      IN  [err |-> FALSE,
           groups |-> [t \in failureTypes |->
                         CASE t = newFailure -> acc.new
                           [] t = knownFailure -> acc.known
                           [] t = fixedFailure -> fixedFailures(postsubmitFailedTestCases, acc.cur)],
           seen |-> acc.seen]

----------------------------------------------------------------------------
(* The inputs of a pass *)

\* The most shard directories the master build collected.
MaxShards == 2

Str_aB == <<"a", ".", "B">>
Str_c == <<"c">>
Str_T1 == <<"T", "1">>
Str_T2 == <<"T", "2">>
Str_T3esc == <<"T", "&lt;", "3">>
Str_T4 == <<"T", "4">>
Str_boom == <<"b", "o", "o", "m">>

TC(class, name, failure) == [Classname |-> class, Name |-> name, Failure |-> failure]

\* A test run three times: passes, then fails twice.
ReportRetried ==
    XUnitFile(<< [Name |-> <<"s">>,
                  Testcases |-> << TC(Str_aB, Str_T1, <<>>), TC(Str_aB, Str_T2, <<>>),
                                   TC(Str_aB, Str_T2, Str_boom), TC(Str_aB, Str_T2, Str_boom) >>] >>)

\* Two suites; cases without a class name; an escaped name; a case whose class
\* and test name are split at another period than those of an earlier case.
ReportSuites ==
    XUnitFile(<< [Name |-> Str_aB,
                  Testcases |-> << TC(<<>>, Str_T2, Str_boom), TC(<<>>, Str_T3esc, Str_boom) >>],
                 [Name |-> Str_c,
                  Testcases |-> << TC(<<>>, Str_T4, Str_boom), TC(Str_aB, Str_T1, <<>>),
                                   TC(<<"a">>, <<"B", ".">> \o Str_T1, Str_boom) >>] >>)

ReportAllPass ==
    XUnitFile(<< [Name |-> <<"s">>,
                  Testcases |-> << TC(Str_aB, Str_T1, <<>>), TC(Str_aB, Str_T2, <<>>) >>] >>)

\* A report cut off after its first cases.
ReportMalformed ==
    MalformedXUnitFile(<< [Name |-> <<"s">>,
                           Testcases |-> << TC(Str_aB, Str_T2, Str_boom),
                                            TC(Str_c, Str_T4, Str_boom) >>] >>)

ReportOneFailure ==
    XUnitFile(<< [Name |-> Str_c, Testcases |-> << TC(Str_c, Str_T4, Str_boom) >>] >>)

\* Timestamps run from 1 to MaxTime. The shards were submitted at SubmitTime,
\* before the last instant; recordMergeConflict writes math.MaxInt64, which is
\* after every build.
MaxTime == 3
SubmitTime == MaxTime - 1
FarFuture == MaxTime + 1

Str_cl == <<"h", "t", "t", "p", ":", "/", "/", "g", "o", "/", "v", "c", "l", "/", "7", "/", "2">>

ShardContent(status, timestamp, xunit) ==
    [Status |-> status, Timestamp |-> timestamp, xunit |-> xunit,
     MergeConflictCL |-> IF status = TestFailedMergeConflict THEN Str_cl ELSE <<>>]

ShardDir(label, test) == [SlaveLabel |-> label, TestName |-> test]

DirWww == ShardDir(<<>>, Str_vanadium_www)
DirLinuxBuild == ShardDir(Str_linux_slave, Str_vanadium_go_build)
DirLinuxTest == ShardDir(Str_linux_slave, Str_vanadium_go_test)

ShardDirs == {DirWww, DirLinuxBuild, DirLinuxTest}

\* What the directory of a shard may hold: the status of the shard, the time of
\* its submission and its xUnit report.
ShardContents ==
    [d \in ShardDirs |->
        CASE d = DirWww ->
               { ShardContent(TestFailed, SubmitTime, ReportRetried),
                 ShardContent(TestPassed, SubmitTime, ReportAllPass),
                 ShardContent(TestTimedOut, SubmitTime, MissingFile),
                 ShardContent(TestFailedMergeConflict, FarFuture, ReportOneFailure) }
          [] d = DirLinuxBuild ->
               { ShardContent(TestFailed, SubmitTime, ReportRetried),
                 ShardContent(TestFailed, SubmitTime, ReportSuites),
                 ShardContent(TestFailed, SubmitTime, ReportMalformed),
                 ShardContent(TestSkipped, SubmitTime, ReportOneFailure) }
          [] d = DirLinuxTest ->
               { ShardContent(TestFailed, SubmitTime, ReportRetried),
                 ShardContent(TestFailed, SubmitTime, ReportSuites),
                 ShardContent(TestPassed, SubmitTime, ReportAllPass),
                 ShardContent(TestFailedMergeConflict, FarFuture, ReportOneFailure) }]

JC(class, name, status) == [ClassName |-> class, Name |-> name, Status |-> status]

Build(timestamp, result, reportOk, cases) ==
    [Timestamp |-> timestamp, Result |-> result, reportOk |-> reportOk, cases |-> cases]

Job(unreachable, idNumeric, builds) ==
    [unreachable |-> unreachable, idNumeric |-> idNumeric, builds |-> builds]

\* One build, before the submission.
JobOneBuild ==
    Job(FALSE, TRUE,
        << Build(1, "FAILURE", TRUE,
                 << JC(Str_aB, Str_T2, "FAILED"), JC(Str_aB, Str_T4, "REGRESSION"),
                    JC(Str_aB, Str_T1, "PASSED") >>) >>)

\* The last completed build ran after the submission.
JobLaterBuild ==
    Job(FALSE, TRUE,
        << Build(1, "SUCCESS", TRUE, << JC(Str_aB, Str_T2, "PASSED") >>),
           Build(MaxTime, "FAILURE", TRUE,
                 << JC(Str_c, Str_T4, "FAILED"), JC(Str_aB, Str_T2, "FAILED") >>) >>)

\* Jenkins does not answer.
JobUnreachable == Job(TRUE, TRUE, <<>>)

\* The id of the last completed build is not a number.
JobNonNumericId ==
    Job(FALSE, FALSE, << Build(1, "SUCCESS", TRUE, << JC(Str_aB, Str_T2, "FAILED") >>) >>)

\* The first build ran after the submission: there is no build at or before it.
JobFirstBuildLater ==
    Job(FALSE, TRUE,
        << Build(MaxTime, "SUCCESS", TRUE,
                 << JC(Str_c, Str_T4, "FAILED"), JC(<<"a">>, <<"B", ".">> \o Str_T2, "FAILED") >>) >>)

\* What Jenkins may answer for the postsubmit job of a build spec.
Jobs(spec) ==
    IF IsPrefix(Str_vanadium_go_test, spec)
    THEN {JobOneBuild, JobLaterBuild, JobUnreachable}
    ELSE IF IsPrefix(Str_vanadium_go_build, spec)
    THEN {JobOneBuild, JobLaterBuild, JobFirstBuildLater}
    ELSE {JobOneBuild, JobUnreachable, JobNonNumericId}

\* The path of a shard's status file below $WORKSPACE/test_results/<n>/.
statusFilePath(dir) ==
    <<"L", "=">> \o dir.SlaveLabel \o <<",", "T", "E", "S", "T", "=">> \o dir.TestName
      \o <<"/", "s", "t", "a", "t", "u", "s", "_">> \o Replace(dir.TestName, <<"-">>, <<"_">>)
      \o <<".", "j", "s", "o", "n">>

RECURSIVE SortStrings(_)
\* sort.Strings of a set of paths.
SortStrings(paths) ==
    IF paths = {} THEN <<>>
    ELSE LET least == CHOOSE p \in paths : \A q \in paths \ {p} : StrLess(p, q)
         IN  <<least>> \o SortStrings(paths \ {least})

\* The status file at a path, decoded: a testResultInfo.
testResultInfoAt(ws, path) ==
    LET dir == CHOOSE d \in DOMAIN ws : statusFilePath(d) = path
    IN  [Result |-> [Status |-> ws[dir].Status, MergeConflictCL |-> ws[dir].MergeConflictCL],
         TestName |-> dir.TestName,
         SlaveLabel |-> dir.SlaveLabel,
         Timestamp |-> ws[dir].Timestamp]

\* ioutil.ReadFile of the xUnit report of (slaveLabel, testName).
xUnitReportFile(ws, slaveLabel, testName) ==
    LET dir == ShardDir(slaveLabel, testName)
    IN  IF dir \in DOMAIN ws THEN ws[dir].xunit ELSE MissingFile

----------------------------------------------------------------------------
(* The pass *)

Init ==
    /\ \E dirs \in SUBSET ShardDirs :
          /\ Cardinality(dirs) <= MaxShards
          /\ workspace \in [dirs -> UNION {ShardContents[d] : d \in ShardDirs}]
          /\ \A d \in dirs : workspace[d] \in ShardContents[d]
    /\ pc = "runResult"
    /\ testResults = <<>>
    /\ masterResult = "none"
    /\ jenkinsJobs = <<>>
    /\ report = <<>>
    /\ failedTestNames = <<>>
    /\ idx = 0
    /\ seenTests = <<>>
    /\ groups = noGroups
    /\ shardLog = <<>>
    /\ numNewFailures = 0
    /\ postCalls = <<>>
    /\ reviews = <<>>
    /\ retval = "none"
    /\ gerritLog = <<>>
    /\ goPool = NotRunning
    /\ testScripts = NotRunning
    /\ nodeRun = NotRunning
    /\ goCmd = NotRunning
    /\ presubmitTest = NotRunning

\* runResult up to the call of postTestReport: the status files, sorted by path,
\* are read and decoded; a file that cannot be read or decoded ends the command.
RunResult ==
    /\ pc = "runResult"
    /\ \E readOk \in BOOLEAN :
          IF readOk \/ DOMAIN workspace = {}
          THEN /\ testResults' =
                    LET statusFiles == SortStrings({statusFilePath(d) : d \in DOMAIN workspace})
                    IN  [i \in 1..Len(statusFiles) |-> testResultInfoAt(workspace, statusFiles[i])]
               /\ pc' = "postTestReport"
               /\ UNCHANGED retval
          ELSE /\ pc' = "done"
               /\ retval' = "error"
               /\ UNCHANGED testResults
    /\ UNCHANGED <<workspace, masterResult, jenkinsJobs, report, failedTestNames, idx,
                   seenTests, groups, shardLog, numNewFailures, postCalls, reviews>>
    /\ UNCHANGED <<gerritLog, otherVars>>

\* strings.Split(reviewTargetRefsFlag, ":")
refs == <<"refs/changes/01/1/1", "refs/changes/02/2/1">>

\* What Gerrit does during one postMessage: whether the base URL check, the
\* credentials and the query of the open changes succeed, the refs of the open
\* changes that carry the Verified label, and the PostReview call that fails
\* (0: none). During a pass the first change may carry the label.
GerritStates ==
    { g \in [queryOk : BOOLEAN, verified : SUBSET {refs[1]}, failAt : 0..Len(refs)] :
        ~g.queryOk => (g.verified = {} /\ g.failAt = 0) }

\* A variant of postMessage that attaches the vote for every ref.
postMessage_VoteEverywhere(message, success, gerrit) ==
    LET value == IF success THEN "1" ELSE "-1"
        last == IF gerrit.failAt = 0 THEN Len(refs) ELSE gerrit.failAt
    IN  IF ~gerrit.queryOk
        THEN [calls |-> <<>>, err |-> TRUE]
        ELSE [calls |-> [i \in 1..last |->
                           [ref |-> refs[i], message |-> message,
                            labels |-> {<<"Verified", value>>}, ok |-> i # gerrit.failAt]],
              err |-> gerrit.failAt # 0]

\* postMessage: the PostReview calls it makes, and whether it returns an error.
postMessage(message, success, gerrit) ==
    LET value == IF success THEN "1" ELSE "-1"
        last == IF gerrit.failAt = 0 THEN Len(refs) ELSE gerrit.failAt
        labels(ref) == IF ref \in gerrit.verified THEN {<<"Verified", value>>} ELSE {}
    IN  IF ~gerrit.queryOk
        THEN [calls |-> <<>>, err |-> TRUE]
        ELSE [calls |-> [i \in 1..last |->
                           [ref |-> refs[i], message |-> message, labels |-> labels(refs[i]),
                            ok |-> i # gerrit.failAt]],
              err |-> gerrit.failAt # 0]

\* A variant of the first lines of postTestReport without the check for an
\* empty result list.
PostTestReport_NoEmptyCheck ==
    /\ pc = "postTestReport"
    /\ pc' = "reportFailedPresubmitBuild"
    /\ UNCHANGED <<workspace, testResults, masterResult, jenkinsJobs, report, failedTestNames,
                   idx, seenTests, groups, shardLog, numNewFailures, postCalls, reviews, retval>>
    /\ UNCHANGED <<gerritLog, otherVars>>

\* postTestReport, first lines: no report when no tests were run.
PostTestReport ==
    /\ pc = "postTestReport"
    /\ IF Len(testResults) = 0
       THEN pc' = "done" /\ retval' = "nil"
       ELSE pc' = "reportFailedPresubmitBuild" /\ UNCHANGED retval
    /\ UNCHANGED <<workspace, testResults, masterResult, jenkinsJobs, report, failedTestNames,
                   idx, seenTests, groups, shardLog, numNewFailures, postCalls, reviews>>
    /\ UNCHANGED <<gerritLog, otherVars>>

\* What jenkins.BuildInfo of the presubmit master build may answer.
MasterResults == {"error", "FAILURE", "SUCCESS"}

\* reportFailedPresubmitBuild and the return of postTestReport that follows it.
ReportFailedPresubmitBuild ==
    /\ pc = "reportFailedPresubmitBuild"
    /\ \E result \in MasterResults :
          /\ masterResult' = result
          /\ IF result = "FAILURE"
             THEN /\ report' = Append(report, [kind |-> "retry"])
                  /\ pc' = "done"
                  /\ retval' = "nil"
             ELSE /\ pc' = "reportMergeConflicts"
                  /\ UNCHANGED <<report, retval>>
    /\ UNCHANGED <<workspace, testResults, jenkinsJobs, failedTestNames, idx, seenTests,
                   groups, shardLog, numNewFailures, postCalls, reviews>>
    /\ UNCHANGED <<gerritLog, otherVars>>

\* A variant of HasMergeConflict that looks at the first result only.
HasMergeConflict_FirstOnly(results) ==
    Len(results) > 0 /\ results[1].Result.Status = TestFailedMergeConflict

HasMergeConflict(results) ==
    \E i \in 1..Len(results) : results[i].Result.Status = TestFailedMergeConflict

mergeConflictMessage(results) ==
    LET first == CHOOSE i \in 1..Len(results) :
                    /\ results[i].Result.Status = TestFailedMergeConflict
                    /\ \A j \in 1..(i - 1) : results[j].Result.Status # TestFailedMergeConflict
    IN  << [kind |-> "mergeConflict", cl |-> results[first].Result.MergeConflictCL] >>

\* reportMergeConflicts and the return of postTestReport that follows it; an
\* error of postMessage is printed, not returned.
ReportMergeConflicts ==
    /\ pc = "reportMergeConflicts"
    /\ IF HasMergeConflict(testResults)
       THEN \E gerrit \in GerritStates :
              LET message == mergeConflictMessage(testResults)
                  posted == postMessage(message, FALSE, gerrit)
              IN  /\ postCalls' = Append(postCalls, [message |-> message, success |-> FALSE])
                  /\ gerritLog' = Append(gerritLog, gerrit)
                  /\ reviews' = reviews \o posted.calls
                  /\ pc' = "done"
                  /\ retval' = "nil"
       ELSE /\ pc' = "reportBuildCop"
            /\ UNCHANGED <<postCalls, reviews, retval, gerritLog>>
    /\ UNCHANGED <<workspace, testResults, masterResult, jenkinsJobs, report, failedTestNames,
                   idx, seenTests, groups, shardLog, numNewFailures>>
    /\ UNCHANGED otherVars

\* reportBuildCop: the build cop is named unless the rotation cannot be read.
ReportBuildCop ==
    /\ pc = "reportBuildCop"
    /\ \E rotationOk \in BOOLEAN :
          report' = IF rotationOk THEN Append(report, [kind |-> "buildCop"]) ELSE report
    /\ pc' = "reportTestResultsSummary"
    /\ UNCHANGED <<workspace, testResults, masterResult, jenkinsJobs, failedTestNames, idx,
                   seenTests, groups, shardLog, numNewFailures, postCalls, reviews, retval>>
    /\ UNCHANGED <<gerritLog, otherVars>>

\* The marks of the summary line.
CheckMark == "check"
CrossMark == "cross"
QuestionMark == "?"

lastStatusString(lastStatus) ==
    IF lastStatus = unknownStatus THEN QuestionMark
    ELSE IF lastStatus = "SUCCESS" THEN CheckMark
    ELSE CrossMark

\* One line of the summary (the body of the loop of reportTestResultsSummary).
summaryLine(resultInfo, job) ==
    LET name == resultInfo.TestName
        status == resultInfo.Result.Status
        nameString ==
            IF isMultiConfigurationJob(name)
            THEN name \o <<" ", "[">> \o Replace(resultInfo.SlaveLabel, Str_slave, <<>>) \o <<"]">>
            ELSE name
    IN  IF status = TestSkipped
        THEN [kind |-> "skipped", name |-> name]
        ELSE [kind |-> "transition",
              last |-> lastStatusString(getPostSubmitBuildStatus(job, resultInfo.Timestamp)),
              cur |-> IF status = TestPassed THEN CheckMark ELSE CrossMark,
              name |-> nameString,
              timedOut |-> status = TestTimedOut]

\* The names reportTestResultsSummary returns: the shards neither skipped nor passed.
failedTests(results) ==
    LET failed == SelectSeq(results, LAMBDA r : r.Result.Status \notin {TestSkipped, TestPassed})
    IN  [i \in 1..Len(failed) |-> failed[i].TestName]

\* The postsubmit job of a shard, by the build spec prefix it is looked up with.
jobOf(resultInfo) == lastCompletedBuildSpec(resultInfo.TestName, resultInfo.SlaveLabel)

\* reportTestResultsSummary; the postsubmit jobs are as Jenkins shows them
\* during this pass.
ReportTestResultsSummary ==
    /\ pc = "reportTestResultsSummary"
    /\ \E jobs \in [{jobOf(testResults[i]) : i \in 1..Len(testResults)} ->
                         {JobOneBuild, JobLaterBuild, JobUnreachable, JobNonNumericId,
                          JobFirstBuildLater}] :
          /\ \A spec \in DOMAIN jobs : jobs[spec] \in Jobs(spec)
          /\ jenkinsJobs' = jobs
          /\ report' = report \o << [kind |-> "summaryHeader"] >>
                         \o [i \in 1..Len(testResults) |->
                               summaryLine(testResults[i], jobs[jobOf(testResults[i])])]
    /\ failedTestNames' = failedTests(testResults)
    /\ IF failedTests(testResults) # <<>>
       THEN pc' = "genFailedTestCasesGroups" /\ idx' = 1
       ELSE pc' = "reportUsefulLinks" /\ UNCHANGED idx
    /\ UNCHANGED <<workspace, testResults, masterResult, seenTests, groups, shardLog,
                   numNewFailures, postCalls, reviews, retval>>
    /\ UNCHANGED <<gerritLog, otherVars>>

\* A variant of shardStep that skips the shard when the failing cases of its
\* postsubmit build cannot be read.
shardStep_SkipOnBaselineError(ws, testResult, job, seen) ==
    LET xunit == xUnitReportFile(ws, testResult.SlaveLabel, testResult.TestName)
        postsubmit == getFailedTestCases(job)
        cur == genFailedTestCasesGroupsForOneTest(testResult, xunit, seen, postsubmit.cases)
    IN  IF xunit.kind = "missing" \/ postsubmit.err
        THEN [outcome |-> "noReport", postsubmit |-> <<>>, groups |-> noGroups, seen |-> seen]
        ELSE IF cur.err
        THEN [outcome |-> "unmarshalError", postsubmit |-> postsubmit.cases, groups |-> noGroups,
              seen |-> seen]
        ELSE [outcome |-> "grouped", postsubmit |-> postsubmit.cases, groups |-> cur.groups,
              seen |-> cur.seen]

\* What one iteration of the loop of genFailedTestCasesGroupsForAllTests does for
\* a shard: [outcome, postsubmit, groups, seen].
shardStep(ws, testResult, job, seen) ==
    LET xunit == xUnitReportFile(ws, testResult.SlaveLabel, testResult.TestName)
        postsubmit == getFailedTestCases(job).cases
        cur == genFailedTestCasesGroupsForOneTest(testResult, xunit, seen, postsubmit)
    IN  IF xunit.kind = "missing"
        THEN [outcome |-> "noReport", postsubmit |-> <<>>, groups |-> noGroups, seen |-> seen]
        ELSE IF cur.err
        THEN [outcome |-> "unmarshalError", postsubmit |-> postsubmit, groups |-> noGroups,
              seen |-> seen]
        ELSE [outcome |-> "grouped", postsubmit |-> postsubmit, groups |-> cur.groups,
              seen |-> cur.seen]

\* One iteration of the loop of genFailedTestCasesGroupsForAllTests.
GenFailedTestCasesGroups ==
    /\ pc = "genFailedTestCasesGroups"
    /\ idx <= Len(testResults)
    /\ LET step == shardStep(workspace, testResults[idx], jenkinsJobs[jobOf(testResults[idx])],
                             seenTests)
       IN  /\ seenTests' = step.seen
           /\ groups' = [t \in failureTypes |-> groups[t] \o step.groups[t]]
           /\ shardLog' = Append(shardLog, [outcome |-> step.outcome,
                                            postsubmit |-> step.postsubmit,
                                            groups |-> step.groups])
    /\ idx' = idx + 1
    /\ UNCHANGED <<workspace, pc, testResults, masterResult, jenkinsJobs, report,
                   failedTestNames, numNewFailures, postCalls, reviews, retval>>
    /\ UNCHANGED <<gerritLog, otherVars>>

groupSection(failureType, infos) ==
    [kind |-> "group",
     header |-> failureType,
     plural |-> Len(infos) > 1,
     links |-> [i \in 1..Len(infos) |->
                  genTestResultLink(infos[i].className, infos[i].testCaseName,
                                    infos[i].seenTestsCount, infos[i].testName,
                                    infos[i].slaveLabel)]]

\* A variant of groupSections that writes the groups in the order of the
\* failureType constants: fixed, new, known.
groupSections_ConstOrder(gs) ==
    LET order == <<fixedFailure, newFailure, knownFailure>>
        present == SelectSeq(order, LAMBDA t : Len(gs[t]) # 0)
    IN  [i \in 1..Len(present) |-> groupSection(present[i], gs[present[i]])]

\* The sections reportFailedTestCases writes: the non-empty groups, in its order.
groupSections(gs) ==
    LET order == <<newFailure, knownFailure, fixedFailure>>
        present == SelectSeq(order, LAMBDA t : Len(gs[t]) # 0)
    IN  [i \in 1..Len(present) |-> groupSection(present[i], gs[present[i]])]

\* reportFailedTestCases after the loop: the groups are written to the report.
ReportFailedTestCases ==
    /\ pc = "genFailedTestCasesGroups"
    /\ idx > Len(testResults)
    /\ report' = report \o groupSections(groups)
    /\ numNewFailures' = Len(groups[newFailure])
    /\ pc' = "reportUsefulLinks"
    /\ UNCHANGED <<workspace, testResults, masterResult, jenkinsJobs, failedTestNames, idx,
                   seenTests, groups, shardLog, postCalls, reviews, retval>>
    /\ UNCHANGED <<gerritLog, otherVars>>

\* reportUsefulLinks
ReportUsefulLinks ==
    /\ pc = "reportUsefulLinks"
    /\ report' = report \o << [kind |-> "moreDetails"] >>
                   \o (IF Len(failedTestNames) > 0
                       THEN << [kind |-> "rerunFailed", tests |-> Join(failedTestNames, <<" ">>)],
                               [kind |-> "rerunAll"] >>
                       ELSE <<>>)
    /\ pc' = "postMessage"
    /\ UNCHANGED <<workspace, testResults, masterResult, jenkinsJobs, failedTestNames, idx,
                   seenTests, groups, shardLog, numNewFailures, postCalls, reviews, retval>>
    /\ UNCHANGED <<gerritLog, otherVars>>

\* A variant of the last lines of postTestReport that votes down whenever a
\* shard failed.
PostMessage_DownOnAnyFailure ==
    /\ pc = "postMessage"
    /\ \E gerrit \in GerritStates :
          LET success == failedTestNames = <<>>
              posted == postMessage(report, success, gerrit)
          IN  /\ postCalls' = Append(postCalls, [message |-> report, success |-> success])
              /\ gerritLog' = Append(gerritLog, gerrit)
              /\ reviews' = reviews \o posted.calls
              /\ retval' = IF posted.err THEN "error" ELSE "nil"
    /\ pc' = "done"
    /\ UNCHANGED <<workspace, testResults, masterResult, jenkinsJobs, report, failedTestNames,
                   idx, seenTests, groups, shardLog, numNewFailures>>
    /\ UNCHANGED otherVars

\* The last lines of postTestReport: the report is posted.
PostMessage ==
    /\ pc = "postMessage"
    /\ \E gerrit \in GerritStates :
          LET success == numNewFailures = 0
              posted == postMessage(report, success, gerrit)
          IN  /\ postCalls' = Append(postCalls, [message |-> report, success |-> success])
              /\ gerritLog' = Append(gerritLog, gerrit)
              /\ reviews' = reviews \o posted.calls
              /\ retval' = IF posted.err THEN "error" ELSE "nil"
    /\ pc' = "done"
    /\ UNCHANGED <<workspace, testResults, masterResult, jenkinsJobs, report, failedTestNames,
                   idx, seenTests, groups, shardLog, numNewFailures>>
    /\ UNCHANGED otherVars

Next ==
    \/ RunResult
    \/ PostTestReport
    \/ ReportFailedPresubmitBuild
    \/ ReportMergeConflicts
    \/ ReportBuildCop
    \/ ReportTestResultsSummary
    \/ GenFailedTestCasesGroups
    \/ ReportFailedTestCases
    \/ ReportUsefulLinks
    \/ PostMessage

Spec == Init /\ [][Next]_vars

----------------------------------------------------------------------------
(* Properties of the classification *)

\* The cases of the report of the i-th shard, in document order.
ReportOf(i) == xUnitReportFile(workspace, testResults[i].SlaveLabel, testResults[i].TestName)
ReportCases(i) == FlattenSuites(ReportOf(i).Testsuites)

PairOfCase(c) == [ClassName |-> CaseClassname(c), Name |-> CaseName(c)]
PairOfInfo(e) == [ClassName |-> e.className, Name |-> e.testCaseName]
PairOfBaseline(b) == [ClassName |-> b.ClassName, Name |-> b.Name]
Pairs(s, P(_)) == [j \in 1..Len(s) |-> P(s[j])]
Range(s) == {s[j] : j \in 1..Len(s)}

\* The (class name, test name) pairs of the failing cases of the i-th shard's report.
FailingPairs(i) ==
    Pairs(SelectSeq(ReportCases(i), LAMBDA c : c.Failure # <<>>), PairOfCase)

Grouped(i) == i \in 1..Len(shardLog) /\ shardLog[i].outcome = "grouped"
BaselinePairs(i) == Pairs(shardLog[i].postsubmit, PairOfBaseline)
GroupPairs(i, t) == Pairs(shardLog[i].groups[t], PairOfInfo)

LoopDone == Len(testResults) > 0 /\ Len(shardLog) = Len(testResults)

\* C1: for every decoded shard report and every baseline list, the failing cases
\* without an equal (class name, test name) pair in the baseline are the NEW
\* group of the shard, the others are its KNOWN group, each in report order, so
\* that |NEW| + |KNOWN| is the number of failing cases of the report.
C1_NewKnownPartition ==
    \A i \in 1..Len(shardLog) :
        /\ ReportOf(i).kind = "xml" <=> Grouped(i)
        /\ Grouped(i) =>
            LET base == Range(BaselinePairs(i))
            IN  /\ GroupPairs(i, newFailure) = SelectSeq(FailingPairs(i), LAMBDA p : p \notin base)
                /\ GroupPairs(i, knownFailure) = SelectSeq(FailingPairs(i), LAMBDA p : p \in base)
                /\ Len(shardLog[i].groups[newFailure]) + Len(shardLog[i].groups[knownFailure])
                     = Len(FailingPairs(i))

\* A shard with a repeated failing case contributed to both groups.
C1_Witness ==
    \E i \in 1..Len(shardLog) :
        /\ Grouped(i)
        /\ Len(shardLog[i].groups[newFailure]) > 0
        /\ Len(shardLog[i].groups[knownFailure]) > 1

\* The failing pairs of the whole run: of every shard whose report was decoded.
FailingAcrossRun ==
    UNION { Range(FailingPairs(i)) : i \in {j \in 1..Len(testResults) : ReportOf(j).kind = "xml"} }

\* C2 as claimed: a baseline failing case is in FIXED iff no failing case of the
\* whole run shares its (class name, test name).
C2_FixedAcrossRun ==
    LoopDone =>
        \A i \in 1..Len(shardLog) :
            Grouped(i) =>
                \A j \in 1..Len(BaselinePairs(i)) :
                    BaselinePairs(i)[j] \in Range(GroupPairs(i, fixedFailure))
                        <=> BaselinePairs(i)[j] \notin FailingAcrossRun

\* C2, amended: a baseline failing case of a shard whose report was decoded is in
\* the FIXED group iff no failing case of that shard's own report shares its
\* (class name, test name); the FIXED entries keep the order of the baseline.
C2_FixedWithinShard ==
    \A i \in 1..Len(shardLog) :
        Grouped(i) =>
            LET failing == Range(FailingPairs(i))
            IN  GroupPairs(i, fixedFailure) = SelectSeq(BaselinePairs(i), LAMBDA p : p \notin failing)

\* A case is reported FIXED by one shard while it fails in another shard.
C2_Witness ==
    /\ LoopDone
    /\ \E i \in 1..Len(shardLog) :
          /\ Grouped(i)
          /\ Range(GroupPairs(i, fixedFailure)) \cap FailingAcrossRun # {}

\* The builds of a job that completed at or before a timestamp.
BuildsAtOrBefore(job, timestamp) ==
    {n \in 1..Len(job.builds) : job.builds[n].Timestamp <= timestamp}

JobOfShard(i) == jenkinsJobs[jobOf(testResults[i])]
BaselineReadable(i) == ~getFailedTestCases(JobOfShard(i)).err

C5_UnknownBaselineAllNew ==
    \A i \in 1..Len(shardLog) :
        (ReportOf(i).kind = "xml" /\ ~BaselineReadable(i)) =>
            /\ Grouped(i)
            /\ GroupPairs(i, newFailure) = FailingPairs(i)
            /\ shardLog[i].groups[knownFailure] = <<>>
            /\ shardLog[i].groups[fixedFailure] = <<>>

C5_Witness ==
    \E i \in 1..Len(shardLog) :
        /\ ReportOf(i).kind = "xml"
        /\ ~BaselineReadable(i)
        /\ Len(shardLog[i].groups[newFailure]) > 1

----------------------------------------------------------------------------
(* Properties of the short-circuits of postTestReport *)

\* postTestReport has returned for a non-empty result list.
Reported == pc = "done" /\ Len(testResults) > 0

\* Some shard ended with a merge conflict.
ConflictAmongShards ==
    \E i \in 1..Len(testResults) : testResults[i].Result.Status = TestFailedMergeConflict

mergeConflictNotice ==
    [message |-> mergeConflictMessage(testResults), success |-> FALSE]

\* C3 as claimed: with a merge conflict among the shards, exactly the
\* merge-conflict notice is posted, whatever the master build's result.
C3_MergeConflictPreempts ==
    (Reported /\ ConflictAmongShards) => postCalls = <<mergeConflictNotice>>

\* C3, amended: the failed-master-build check comes first. With a merge conflict
\* among the shards and a master build whose result is not FAILURE, exactly the
\* merge-conflict notice is posted, with a failing vote, and nothing is written
\* to the report; when the master build's result is FAILURE no merge-conflict
\* notice is posted.
C3_MergeConflictAfterMasterCheck ==
    (Reported /\ ConflictAmongShards) =>
        /\ retval = "nil"
        /\ masterResult # "FAILURE" =>
              /\ postCalls = <<mergeConflictNotice>>
              /\ report = <<>>
              /\ shardLog = <<>>
              /\ \A k \in 1..Len(reviews) :
                    /\ reviews[k].message = mergeConflictNotice.message
                    /\ reviews[k].labels \subseteq {<<"Verified", "-1">>}
        /\ masterResult = "FAILURE" => mergeConflictNotice \notin Range(postCalls)

\* The notice was posted for a conflict that is not in the first shard.
C3_Witness ==
    /\ Reported
    /\ Len(testResults) > 1
    /\ testResults[1].Result.Status = TestFailed
    /\ ConflictAmongShards
    /\ Len(reviews) = Len(refs)
    /\ reviews[1].labels # {}

retryNotice == << [kind |-> "retry"] >>

\* C6: when the master build's result is FAILURE, the retry notice is what is
\* published, and it is all that is published.
C6_RetryNoticePublished ==
    (Reported /\ masterResult = "FAILURE") =>
        /\ Len(postCalls) = 1
        /\ postCalls[1].message = retryNotice

\* C7: with no shard results nothing is posted, neither Jenkins nor Gerrit is
\* asked anything, and the command returns without an error.
C7_NoResultsNoPost ==
    DOMAIN workspace = {} =>
        /\ postCalls = <<>>
        /\ reviews = <<>>
        /\ masterResult = "none"
        /\ jenkinsJobs = <<>>
        /\ report = <<>>
        /\ retval \in {"none", "nil"}
        /\ pc \in {"runResult", "postTestReport", "done"}
        /\ pc = "done" => retval = "nil"

C7_Witness == DOMAIN workspace = {} /\ pc = "done" /\ retval = "nil" /\ testResults = <<>>

----------------------------------------------------------------------------
(* Properties of the occurrence counter, the links and the order *)

Decoded(i) == ReportOf(i).kind = "xml"

\* The keys of the cases of the i-th shard's report, in document order (none
\* when the report is not decoded).
KeysOfShard(i) ==
    IF Decoded(i)
    THEN SelectSeq(Pairs(ReportCases(i),
                         LAMBDA c : testKeyOf(CaseClassname(c), CaseName(c), testResults[i].SlaveLabel)),
                   LAMBDA k : TRUE)
    ELSE <<>>

RECURSIVE KeysOfShards(_)
\* KeysOfShard of the first n shards.
KeysOfShards(n) == IF n = 0 THEN <<>> ELSE Append(KeysOfShards(n - 1), KeysOfShard(n))

\* How often key k is among the first q keys of ks.
Encounters(ks, q, k) == Cardinality({n \in 1..q : ks[n] = k})

RECURSIVE EncountersInShards(_, _, _)
\* How often key k is met in the reports of the first n shards (keys: KeysOfShards).
EncountersInShards(keys, n, k) ==
    IF n = 0 THEN 0
    ELSE EncountersInShards(keys, n - 1, k) + Encounters(keys[n], Len(keys[n]), k)

\* The positions, in report order, of the failing cases of the i-th shard that
\* belong to group t (NEW or KNOWN) given the baseline the shard was compared with.
FailingPositions(i, t) ==
    LET cases == ReportCases(i)
        base == Range(Pairs(getFailedTestCases(JobOfShard(i)).cases, PairOfBaseline))
        belongs(q) == /\ cases[q].Failure # <<>>
                      /\ (t = newFailure) <=> (PairOfCase(cases[q]) \notin base)
    IN  SelectSeq([q \in 1..Len(cases) |-> q], belongs)

IsSuffix(x, s) == Len(x) <= Len(s) /\ SubSeq(s, Len(s) - Len(x) + 1, Len(s)) = x

linkOf(e) == genTestResultLink(e.className, e.testCaseName, e.seenTestsCount, e.testName, e.slaveLabel)
linkAvailable(e) == ~IsSuffix(Str_notAvailable, linkOf(e))

\* The links of the section of group t in the report, <<>> when there is none.
RenderedLinks(t) ==
    LET mine == SelectSeq(report, LAMBDA x : x.kind = "group" /\ x.header = t)
    IN  IF mine = <<>> THEN <<>> ELSE mine[1].links

\* The loop of genFailedTestCasesGroupsForAllTests is running or has just ended.
InLoop == pc = "genFailedTestCasesGroups"
\* reportFailedTestCases has just written the groups to the report.
Rendered == LoopDone /\ pc = "reportUsefulLinks"

\* C8: the counter of a key is the number of test cases with that key met so far,
\* passing or failing, over all decoded reports; a failing case that is the k-th
\* encounter of its key is recorded with k, and its link is the link of a first
\* encounter with "_k" appended when k > 1 and without a suffix when k = 1.
C8_OccurrenceCounter ==
    /\ InLoop =>
          LET keys == KeysOfShards(Len(shardLog))
          IN  /\ DOMAIN seenTests = UNION {Range(keys[i]) : i \in 1..Len(keys)}
              /\ \A k \in DOMAIN seenTests : seenTests[k] = EncountersInShards(keys, Len(keys), k)
              /\ \A i \in 1..Len(shardLog) : \A t \in {newFailure, knownFailure} :
                    Decoded(i) =>
                      LET at == FailingPositions(i, t)
                          infos == shardLog[i].groups[t]
                      IN  /\ Len(infos) = Len(at)
                          /\ \A m \in 1..Len(infos) :
                                infos[m].seenTestsCount =
                                    EncountersInShards(keys, i - 1, keys[i][at[m]])
                                      + Encounters(keys[i], at[m], keys[i][at[m]])
    /\ Rendered =>
          \A t \in {newFailure, knownFailure} :
            LET links == RenderedLinks(t)
            IN  /\ Len(links) = Len(groups[t])
                /\ \A m \in 1..Len(groups[t]) :
                      LET e == groups[t][m]
                          k == e.seenTestsCount
                          first == linkOf([e EXCEPT !.seenTestsCount = 1])
                      IN  linkAvailable(e) =>
                            /\ IsSuffix(safeTestName(e.testCaseName), first)
                            /\ links[m] = IF k > 1 THEN first \o <<"_">> \o Itoa(k) ELSE first

\* A failing case is the fourth encounter of its key, after a failing encounter
\* in an earlier shard and a passing one in its own; another is a first encounter.
C8_Witness ==
    /\ Rendered
    /\ \E m \in 1..Len(groups[knownFailure]) :
          /\ groups[knownFailure][m].seenTestsCount = 4
          /\ IsSuffix(<<"T", "2", "_", "4">>, RenderedLinks(knownFailure)[m])
    /\ \E m \in 1..Len(groups[newFailure]) :
          /\ groups[newFailure][m].seenTestsCount = 1
          /\ IsSuffix(<<"/", "T", "4">>, RenderedLinks(newFailure)[m])

RECURSIVE ConcatShardGroups(_, _)
\* The entries the first n shards contributed to group t, shard after shard.
ConcatShardGroups(n, t) ==
    IF n = 0 THEN <<>> ELSE ConcatShardGroups(n - 1, t) \o shardLog[n].groups[t]

groupRank(header) ==
    CASE header = newFailure -> 1 [] header = knownFailure -> 2 [] header = fixedFailure -> 3

\* C9: the report lists the groups in the order NEW, KNOWN, FIXED; each group
\* holds the entries of the shards in the order of the shard sequence, which is
\* sorted by status file path, and the entries of one shard in report order
\* (FIXED: in baseline order); the groups are a function of the inputs.
C9_GroupOrder ==
    /\ pc = "postTestReport" =>
          \A i, j \in 1..Len(testResults) :
              i < j => StrLess(statusFilePath(ShardDir(testResults[i].SlaveLabel, testResults[i].TestName)),
                               statusFilePath(ShardDir(testResults[j].SlaveLabel, testResults[j].TestName)))
    /\ InLoop =>
          /\ \A t \in failureTypes : groups[t] = ConcatShardGroups(Len(shardLog), t)
          /\ \A i \in 1..Len(shardLog) :
                Decoded(i) =>
                  /\ \A t \in {newFailure, knownFailure} :
                        LET at == FailingPositions(i, t)
                            cases == ReportCases(i)
                        IN  GroupPairs(i, t) = [m \in 1..Len(at) |-> PairOfCase(cases[at[m]])]
                  /\ GroupPairs(i, fixedFailure) =
                        SelectSeq(Pairs(getFailedTestCases(JobOfShard(i)).cases, PairOfBaseline),
                                  LAMBDA p : p \notin Range(FailingPairs(i)))
    /\ Rendered =>
          LET sections == SelectSeq(report, LAMBDA x : x.kind = "group")
          IN  /\ \A a, b \in 1..Len(sections) :
                    a < b => groupRank(sections[a].header) < groupRank(sections[b].header)
              /\ {sections[a].header : a \in 1..Len(sections)} = {t \in failureTypes : groups[t] # <<>>}
              /\ \A a \in 1..Len(sections) :
                    sections[a].links =
                        [m \in 1..Len(groups[sections[a].header]) |->
                            linkOf(groups[sections[a].header][m])]

\* All three groups are in the report, and NEW holds entries of two shards.
C9_Witness ==
    /\ Rendered
    /\ Len(SelectSeq(report, LAMBDA x : x.kind = "group")) = 3
    /\ \E a, b \in 1..Len(groups[newFailure]) :
          a < b /\ groups[newFailure][a].testName # groups[newFailure][b].testName

RECURSIVE LoopOver(_, _)
\* The loop of genFailedTestCasesGroupsForAllTests over a list of shards:
\* [groups, seen].
LoopOver(results, acc) ==
    IF results = <<>> THEN acc
    ELSE LET step == shardStep(workspace, Head(results), jenkinsJobs[jobOf(Head(results))], acc.seen)
         IN  LoopOver(Tail(results),
                      [groups |-> [t \in failureTypes |-> acc.groups[t] \o step.groups[t]],
                       seen |-> step.seen])

\* The shards processed so far, without those whose report cannot be decoded.
ProcessedWellFormed ==
    SelectSeq(SubSeq(testResults, 1, Len(shardLog)),
              LAMBDA r : xUnitReportFile(workspace, r.SlaveLabel, r.TestName).kind # "malformed")

\* C10: a shard whose report cannot be decoded contributes to no group and leaves
\* the counter alone; the groups and the counter are what the loop yields for
\* the other shards alone, and the report is still handed to postMessage.
C10_MalformedShardSkipped ==
    /\ \A i \in 1..Len(shardLog) :
          ReportOf(i).kind = "malformed" =>
              shardLog[i].outcome = "unmarshalError" /\ shardLog[i].groups = noGroups
    /\ InLoop =>
          LET others == LoopOver(ProcessedWellFormed, [groups |-> noGroups, seen |-> <<>>])
          IN  groups = others.groups /\ seenTests = others.seen
    /\ (LoopDone /\ pc = "done") => Len(postCalls) = 1 /\ postCalls[1].message = report

\* A malformed report was met before a report that shares its label and its
\* test cases, and the report was posted.
C10_Witness ==
    /\ LoopDone
    /\ pc = "done"
    /\ groups = LoopOver(ProcessedWellFormed, [groups |-> noGroups, seen |-> <<>>]).groups
    /\ Len(shardLog) > 1
    /\ shardLog[1].outcome = "unmarshalError"
    /\ testResults[1].SlaveLabel = testResults[2].SlaveLabel
    /\ Len(shardLog[2].groups[knownFailure]) > 1
    /\ Len(reviews) > 0

----------------------------------------------------------------------------
(* Properties of the results summary *)

\* The lines of the results summary in the report, one per shard.
SummaryLines == SelectSeq(report, LAMBDA x : x.kind \in {"skipped", "transition"})
SummaryWritten == \E n \in 1..Len(report) : report[n].kind = "summaryHeader"

\* The status of the postsubmit job of the i-th shard cannot be resolved: the
\* lookup of the last completed build fails, its id is not a number, or no
\* build down to number 1 completed at or before the shard's timestamp.
StatusUnresolvable(i) ==
    LET job == JobOfShard(i)
    IN  \/ job.unreachable
        \/ job.builds = <<>>
        \/ ~job.idNumeric
        \/ \A n \in 1..Len(job.builds) : job.builds[n].Timestamp > testResults[i].Timestamp

\* C11: a shard whose postsubmit status cannot be resolved gets the mark '?' in
\* its summary line; the summary still has a line for every shard, the pass
\* goes on, and the report that holds these lines is what is posted.
C11_UnknownStatusNotFatal ==
    SummaryWritten =>
        /\ Len(SummaryLines) = Len(testResults)
        /\ \A i \in 1..Len(testResults) :
              (testResults[i].Result.Status # TestSkipped /\ StatusUnresolvable(i)) =>
                  /\ SummaryLines[i].kind = "transition"
                  /\ SummaryLines[i].last = QuestionMark
        /\ pc # "done" => retval = "none"
        /\ pc = "done" => Len(postCalls) = 1 /\ postCalls[1].message = report

\* The report was posted with a '?' line for a job whose id is not a number and
\* a '?' line for a job none of whose builds completed by the shard's timestamp.
C11_Witness ==
    /\ pc = "done"
    /\ SummaryWritten
    /\ Len(postCalls) = 1
    /\ \E i, j \in 1..Len(testResults) :
          /\ ~JobOfShard(i).unreachable /\ ~JobOfShard(i).idNumeric
          /\ SummaryLines[i].kind = "transition" /\ SummaryLines[i].last = QuestionMark
          /\ JobOfShard(j) = JobFirstBuildLater
          /\ SummaryLines[j].kind = "transition" /\ SummaryLines[j].last = QuestionMark

\* C12 as claimed: a skipped shard has a 'skipped <name>' line in the summary,
\* is not among the failed tests, and contributes no entry to any group.
C12_SkippedShardExcluded ==
    SummaryWritten =>
        \A i \in 1..Len(testResults) :
            testResults[i].Result.Status = TestSkipped =>
                /\ SummaryLines[i] = [kind |-> "skipped", name |-> testResults[i].TestName]
                /\ Len(failedTestNames) =
                      Cardinality({j \in 1..Len(testResults) :
                                      testResults[j].Result.Status \notin {TestSkipped, TestPassed}})
                /\ testResults[i].TestName \notin Range(failedTestNames)
                /\ i \in 1..Len(shardLog) => shardLog[i].groups = noGroups

----------------------------------------------------------------------------
(* Properties of a shard without failing cases *)

\* The report of the i-th shard was decoded and has no failing case.
NoFailingCase(i) == Decoded(i) /\ FailingPairs(i) = <<>>

\* The link the report shows for a fixed failure.
FixedLink(b) == genTestResultLink(b.ClassName, b.Name, 0, <<>>, <<>>)

\* The links of the FIXED section of the report; none when there is no section.
FixedLinks == Range(RenderedLinks(fixedFailure))

\* C13 as claimed: once the report is posted, a shard without failing cases has
\* every failing case of its baseline in the FIXED group of the report.
C13_BaselineAlwaysFixed ==
    (pc = "done" /\ SummaryWritten) =>
        \A i \in 1..Len(testResults) :
            NoFailingCase(i) =>
                \A b \in Range(getFailedTestCases(JobOfShard(i)).cases) : FixedLink(b) \in FixedLinks

\* C13, amended: the groups are only made when some shard of the run is neither
\* passed nor skipped. When they are, a shard without failing cases contributes
\* nothing to NEW and KNOWN and its whole baseline, in order, to FIXED, and the
\* report shows a FIXED link for each of these cases.
C13_ZeroFailuresFixedWhenGrouped ==
    /\ (SummaryWritten /\ failedTestNames = <<>>) =>
          /\ shardLog = <<>>
          /\ groups = noGroups
          /\ \A n \in 1..Len(report) : report[n].kind # "group"
    /\ \A i \in 1..Len(shardLog) :
          NoFailingCase(i) =>
              /\ shardLog[i].groups[newFailure] = <<>>
              /\ shardLog[i].groups[knownFailure] = <<>>
              /\ GroupPairs(i, fixedFailure)
                   = Pairs(getFailedTestCases(JobOfShard(i)).cases, PairOfBaseline)
              /\ Rendered =>
                    \A b \in Range(getFailedTestCases(JobOfShard(i)).cases) :
                        FixedLink(b) \in FixedLinks

\* A passing shard of a run with a failed shard has its baseline under FIXED.
C13_Witness ==
    /\ Rendered
    /\ \E i \in 1..Len(shardLog) :
          /\ NoFailingCase(i)
          /\ testResults[i].Result.Status = TestPassed
          /\ Len(getFailedTestCases(JobOfShard(i)).cases) > 1
          /\ \A b \in Range(getFailedTestCases(JobOfShard(i)).cases) : FixedLink(b) \in FixedLinks

----------------------------------------------------------------------------
(* Properties of postMessage *)

\* C14: postMessage posts the message to the target refs in their order, with
\* the label Verified (1 on success, -1 otherwise) exactly for the refs of open
\* changes that carry that label and with no label for the others; every ref
\* is posted to unless the query of the open changes or a PostReview fails,
\* and then the refs before the failing call have been posted to.
C14_VerifiedOnlyWhereUsed ==
    /\ Len(gerritLog) = Len(postCalls)
    /\ Len(postCalls) <= 1
    /\ postCalls = <<>> => reviews = <<>>
    /\ postCalls # <<>> =>
          LET g == gerritLog[1]
              value == IF postCalls[1].success THEN "1" ELSE "-1"
          IN  /\ Len(reviews) = IF ~g.queryOk THEN 0
                                ELSE IF g.failAt = 0 THEN Len(refs) ELSE g.failAt
              /\ \A k \in 1..Len(reviews) :
                    /\ reviews[k].ref = refs[k]
                    /\ reviews[k].message = postCalls[1].message
                    /\ reviews[k].labels =
                          IF refs[k] \in g.verified THEN {<<"Verified", value>>} ELSE {}

\* A passing report was posted to both refs: with the vote for the ref of the
\* change that carries the label, without a label for the other.
C14_Witness ==
    /\ pc = "done"
    /\ SummaryWritten
    /\ Len(reviews) = Len(refs)
    /\ reviews[1].labels = {<<"Verified", "1">>}
    /\ reviews[2].labels = {}
    /\ reviews[2].ok

----------------------------------------------------------------------------
(* Properties of the display name *)

RECURSIVE PeriodsAsColons(_)
\* A name as the report shows it: "::" in the place of every period.
PeriodsAsColons(s) ==
    IF s = <<>> THEN <<>>
    ELSE (IF Head(s) = "." THEN <<":", ":">> ELSE <<Head(s)>>) \o PeriodsAsColons(Tail(s))

\* The display name of a (class name, test name) pair.
DisplayOf(p) == PeriodsAsColons(p.ClassName) \o <<":", ":">> \o PeriodsAsColons(p.Name)

\* The first line of a link of the report, without its leading "- ".
DisplayLine(link) ==
    LET nl == CHOOSE k \in 1..Len(link) : link[k] = "\n" /\ \A j \in 1..(k - 1) : link[j] # "\n"
    IN  SubSeq(link, 3, nl - 1)

\* C15: the name the report shows for an entry of a group is "class.test" with
\* every period replaced by "::", so it holds no period; the entries themselves
\* keep the raw class and test names, and a failing case is KNOWN exactly when
\* the baseline holds a case with the same raw class name and the same raw test
\* name, whatever the display names are.
C15_DisplayNameWithoutPeriod ==
    /\ Rendered =>
          \A t \in failureTypes :
              /\ Len(RenderedLinks(t)) = Len(groups[t])
              /\ \A j \in 1..Len(groups[t]) :
                    LET shown == DisplayLine(RenderedLinks(t)[j])
                    IN  /\ shown = DisplayOf(PairOfInfo(groups[t][j]))
                        /\ ~Contains(shown, ".")
    /\ \A i \in 1..Len(shardLog) :
          Grouped(i) =>
              LET base == Range(BaselinePairs(i))
                  failing == Range(FailingPairs(i))
              IN  /\ \A p \in Range(GroupPairs(i, newFailure)) : p \in failing /\ p \notin base
                  /\ \A p \in Range(GroupPairs(i, knownFailure)) : p \in failing /\ p \in base
                  /\ \A p \in Range(GroupPairs(i, fixedFailure)) : p \in base /\ p \notin failing

\* The report shows a NEW failure whose raw names hold a period and whose display
\* name is also the display name of a failing case of the baseline.
C15_Witness ==
    /\ Rendered
    /\ \E i \in 1..Len(shardLog) :
          /\ Grouped(i)
          /\ \E p \in Range(GroupPairs(i, newFailure)) :
                /\ Contains(p.ClassName, ".")
                /\ \E b \in Range(BaselinePairs(i)) : b # p /\ DisplayOf(b) = DisplayOf(p)
    /\ \E j \in 1..Len(groups[newFailure]) :
          Contains(DisplayLine(RenderedLinks(newFailure)[j]), ":")

----------------------------------------------------------------------------
(* goBuild and goTest: the pool of workers *)

\* The presubmit result command is not running.
PresubmitIdle ==
    /\ workspace = <<>>
    /\ pc = "idle"
    /\ testResults = <<>>
    /\ masterResult = "none"
    /\ jenkinsJobs = <<>>
    /\ report = <<>>
    /\ failedTestNames = <<>>
    /\ idx = 0
    /\ seenTests = <<>>
    /\ groups = noGroups
    /\ shardLog = <<>>
    /\ numNewFailures = 0
    /\ postCalls = <<>>
    /\ reviews = <<>>
    /\ retval = "none"
    /\ gerritLog = <<>>

\* The most packages goutil.List returns, and the most CPUs of the machine.
MaxPkgs == 3
MaxCPU == 2

\* What a worker's command may end with: go build passes or fails; go test
\* passes or fails, or the test binary does not build.
workerStatuses(mode) ==
    IF mode = "goBuild" THEN {"buildPassed", "buildFailed"}
    ELSE {"testPassed", "testFailed", "buildFailed"}

\* What xunit.TestSuiteFromGoTestOutput may answer for the output of a worker.
parseOutcomes == {"suite", "token too long", "error"}

\* The packages are numbered 1..numPkgs in the order of pkgList; excluded holds
\* the packages of goTest for which filterExcludedTests answers testThisPkg = false.
GoPoolInit ==
    /\ \E mode \in {"goBuild", "goTest"}, n \in 0..MaxPkgs, cpus \in 1..MaxCPU :
          \E excluded \in SUBSET (1..n) :
              /\ mode = "goBuild" => excluded = {}
              /\ goPool = [pc |-> "distribute", mode |-> mode, numPkgs |-> n,
                           excluded |-> excluded, i |-> 1,
                           tasks |-> <<>>, tasksClosed |-> FALSE,
                           taskResults |-> <<>>, taskResultsClosed |-> FALSE,
                           workers |-> [w \in 1..cpus |-> [pc |-> "range", task |-> 0]],
                           received |-> <<>>, suites |-> <<>>, allPassed |-> TRUE,
                           retval |-> "none", panic |-> FALSE]
    /\ PresubmitIdle
    /\ testScripts = NotRunning
    /\ nodeRun = NotRunning
    /\ goCmd = NotRunning
    /\ presubmitTest = NotRunning

\* One round of the distribution loop: the package is sent to the workers, or,
\* in goTest, a result is made up for a package without tests to run. A send
\* waits while the buffer of the channel (numPkgs places) is full.
Distribute ==
    /\ goPool.pc = "distribute"
    /\ goPool.i <= goPool.numPkgs
    /\ IF goPool.i \notin goPool.excluded
       THEN /\ Len(goPool.tasks) < goPool.numPkgs
            /\ goPool' = [goPool EXCEPT !.tasks = Append(@, goPool.i), !.i = @ + 1]
       ELSE /\ Len(goPool.taskResults) < goPool.numPkgs
            /\ goPool' = [goPool EXCEPT
                            !.taskResults = Append(@, [pkg |-> goPool.i,
                                                       output |-> "package excluded",
                                                       status |-> "testPassed"]),
                            !.i = @ + 1]
    /\ UNCHANGED <<presubmitVars, testScripts, nodeRun, goCmd, presubmitTest>>

\* close(tasks) after the distribution loop.
CloseTasks ==
    /\ goPool.pc = "distribute"
    /\ goPool.i > goPool.numPkgs
    /\ goPool' = [goPool EXCEPT !.tasksClosed = TRUE, !.pc = "collect"]
    /\ UNCHANGED <<presubmitVars, testScripts, nodeRun, goCmd, presubmitTest>>

\* A worker at "for pkg := range pkgs": it takes the next task, or leaves the
\* loop when the channel is closed and empty, and waits otherwise.
WorkerReceive(w) ==
    /\ goPool.workers[w].pc = "range"
    /\ IF goPool.tasks # <<>>
       THEN goPool' = [goPool EXCEPT !.tasks = Tail(@),
                                     !.workers[w] = [pc |-> "run", task |-> Head(goPool.tasks)]]
       ELSE /\ goPool.tasksClosed
            /\ goPool' = [goPool EXCEPT !.workers[w] = [pc |-> "exited", task |-> 0]]
    /\ UNCHANGED <<presubmitVars, testScripts, nodeRun, goCmd, presubmitTest>>

\* A worker runs the command of its task and sends the result; a send on a
\* closed channel panics, a send on a full one waits.
WorkerSend(w) ==
    /\ goPool.workers[w].pc = "run"
    /\ \E status \in workerStatuses(goPool.mode) :
          IF goPool.taskResultsClosed
          THEN goPool' = [goPool EXCEPT !.panic = TRUE, !.workers[w].pc = "exited"]
          ELSE /\ Len(goPool.taskResults) < goPool.numPkgs
               /\ goPool' = [goPool EXCEPT
                               !.taskResults = Append(@, [pkg |-> goPool.workers[w].task,
                                                          output |-> "command output",
                                                          status |-> status]),
                               !.workers[w] = [pc |-> "range", task |-> 0]]
    /\ UNCHANGED <<presubmitVars, testScripts, nodeRun, goCmd, presubmitTest>>

\* One round of the collection loop: a result is received and its suite, if it
\* has one, is appended. goTest parses the output of a tested package, and
\* returns at once when the parser fails with anything but "token too long".
Collect ==
    /\ goPool.pc = "collect"
    /\ Len(goPool.received) < goPool.numPkgs
    /\ goPool.taskResults # <<>>
    /\ LET result == Head(goPool.taskResults)
           parsed == goPool.mode = "goTest" /\ result.status # "buildFailed"
                       /\ result.output # "package excluded"
       IN  \E parse \in parseOutcomes :
              /\ ~parsed => parse = "suite"
              /\ LET failures == \/ result.status = "buildFailed"
                                 \/ parsed /\ parse = "token too long"
                                 \/ parsed /\ parse = "suite" /\ result.status = "testFailed"
                     hasSuite == goPool.mode = "goBuild" \/ result.status = "buildFailed" \/ parsed
                 IN  IF parse = "error"
                     THEN goPool' = [goPool EXCEPT !.taskResults = Tail(@),
                                                   !.received = Append(@, result),
                                                   !.pc = "returned", !.retval = "error"]
                     ELSE goPool' = [goPool EXCEPT
                                       !.taskResults = Tail(@),
                                       !.received = Append(@, result),
                                       !.suites = IF hasSuite THEN Append(@, result.pkg) ELSE @,
                                       !.allPassed = @ /\ ~failures]
    /\ UNCHANGED <<presubmitVars, testScripts, nodeRun, goCmd, presubmitTest>>

\* After the collection loop: close(taskResults), the xUnit report is created
\* and the status returned.
CreateReport ==
    /\ goPool.pc = "collect"
    /\ Len(goPool.received) = goPool.numPkgs
    /\ \E reportOk \in BOOLEAN :
          goPool' = [goPool EXCEPT
                       !.taskResultsClosed = TRUE,
                       !.pc = "returned",
                       !.retval = IF ~reportOk THEN "error"
                                  ELSE IF goPool.allPassed THEN "TestPassed" ELSE "TestFailed"]
    /\ UNCHANGED <<presubmitVars, testScripts, nodeRun, goCmd, presubmitTest>>

GoPoolNext ==
    \/ Distribute
    \/ CloseTasks
    \/ \E w \in DOMAIN goPool.workers : WorkerReceive(w)
    \/ \E w \in DOMAIN goPool.workers : WorkerSend(w)
    \/ Collect
    \/ CreateReport

SpecGoPool == GoPoolInit /\ [][GoPoolNext]_vars

\* The packages of the results received so far.
ReceivedPkgs == [k \in 1..Len(goPool.received) |-> goPool.received[k].pkg]

\* No sender is waiting: the channel a sender is about to send on has room.
NoSendWaits ==
    /\ (goPool.pc = "distribute" /\ goPool.i <= goPool.numPkgs) =>
          IF goPool.i \notin goPool.excluded
          THEN Len(goPool.tasks) < goPool.numPkgs
          ELSE Len(goPool.taskResults) < goPool.numPkgs
    /\ \A w \in DOMAIN goPool.workers :
          goPool.workers[w].pc = "run" => Len(goPool.taskResults) < goPool.numPkgs

\* C16: when the main routine has left the collection loop it has received
\* exactly numPkgs results, one for each package, made up ("package excluded")
\* exactly for the excluded packages; no send ever waits on a full channel and no
\* result is sent on the closed result channel.
C16_OneResultPerPackage ==
    /\ goPool.pc = "returned" =>
          /\ Len(goPool.received) = goPool.numPkgs
          /\ \A p \in 1..goPool.numPkgs :
                Cardinality({k \in 1..Len(ReceivedPkgs) : ReceivedPkgs[k] = p}) = 1
          /\ \A k \in 1..Len(goPool.received) :
                goPool.received[k].output = "package excluded"
                   <=> goPool.received[k].pkg \in goPool.excluded
    /\ NoSendWaits
    /\ ~goPool.panic

\* What holds of the pool: the barrier holds unless goTest returned the error of
\* the parser from inside the collection loop; the sends never wait, and never
\* reach a closed channel.
GoPoolBarrierUnlessParserError ==
    /\ (goPool.pc = "returned" /\ goPool.taskResultsClosed) =>
          /\ Len(goPool.received) = goPool.numPkgs
          /\ \A p \in 1..goPool.numPkgs :
                Cardinality({k \in 1..Len(ReceivedPkgs) : ReceivedPkgs[k] = p}) = 1
          /\ \A w \in DOMAIN goPool.workers : goPool.workers[w].pc # "run"
    /\ (goPool.pc = "returned" /\ ~goPool.taskResultsClosed) =>
          goPool.mode = "goTest" /\ goPool.retval = "error"
    /\ \A p \in 1..goPool.numPkgs :
          Cardinality({k \in 1..Len(ReceivedPkgs) : ReceivedPkgs[k] = p}) <= 1
    /\ NoSendWaits
    /\ ~goPool.panic

----------------------------------------------------------------------------
(* runTestScripts: the pool of test workers and the signal handler *)

\* The names of the test scripts, in the order findTestScripts finds them.
TestScriptNames == << <<"b">>, <<"a">>, <<"a", "/", "c">> >>
MaxTests == 3
MaxTestWorkers == 2

SIGINT == 2
SIGTERM == 15

\* numWorkers, overridden by a positive flag.
numWorkers(numJobs, numCPU, numTestWorkersFlag) ==
    IF numTestWorkersFlag > 0 THEN numTestWorkersFlag
    ELSE IF numJobs < numCPU THEN numJobs ELSE numCPU

\* runTestScripts up to the start of the handler goroutine: the channels are
\* made, the workers started, unfinishedTests filled and the signals requested.
TestScriptsInit ==
    /\ \E n \in 0..MaxTests, numCPU \in 1..MaxTestWorkers, flag \in 0..MaxTestWorkers :
          testScripts =
             [pc |-> "send", numTests |-> n, i |-> 1,
              jobs |-> <<>>, jobsClosed |-> FALSE, results |-> <<>>,
              workers |-> [w \in 1..numWorkers(n, numCPU, flag) |-> <<>>],
              unfinishedTests |-> {TestScriptNames[k] : k \in 1..n},
              allTests |-> <<>>,
              sigchan |-> 0,
              handler |-> [pc |-> "wait", s |-> 0, tests |-> {}, afterSubmit |-> FALSE,
                           observable |-> {}],
              printed |-> <<>>, exitedBy |-> "none", exitCode |-> 0]
    /\ PresubmitIdle
    /\ goPool = NotRunning
    /\ nodeRun = NotRunning
    /\ goCmd = NotRunning
    /\ presubmitTest = NotRunning

\* A signal is delivered to the process: signal.Notify puts it on sigchan unless
\* its buffer of one is full.
Signal ==
    /\ testScripts.exitedBy = "none"
    /\ testScripts.sigchan = 0
    /\ testScripts.handler.pc = "wait"
    /\ \E s \in {SIGINT, SIGTERM} :
          testScripts' = [testScripts EXCEPT !.sigchan = s]
    /\ UNCHANGED <<presubmitVars, goPool, nodeRun, goCmd, presubmitTest>>

\* The main routine sends the next test script to the workers; after the last
\* one it closes the channel.
SendJob ==
    /\ testScripts.exitedBy = "none"
    /\ testScripts.pc = "send"
    /\ IF testScripts.i <= testScripts.numTests
       THEN /\ Len(testScripts.jobs) < testScripts.numTests
            /\ testScripts' = [testScripts EXCEPT
                                 !.jobs = Append(@, TestScriptNames[testScripts.i]),
                                 !.i = @ + 1]
       ELSE testScripts' = [testScripts EXCEPT !.jobsClosed = TRUE, !.pc = "gather"]
    /\ UNCHANGED <<presubmitVars, goPool, nodeRun, goCmd, presubmitTest>>

\* testWorker takes the next script from the jobs channel.
TestWorkerReceive(w) ==
    /\ testScripts.exitedBy = "none"
    /\ testScripts.workers[w] = <<>>
    /\ testScripts.jobs # <<>>
    /\ testScripts' = [testScripts EXCEPT !.jobs = Tail(@),
                                          !.workers[w] = Head(testScripts.jobs)]
    /\ UNCHANGED <<presubmitVars, goPool, nodeRun, goCmd, presubmitTest>>

\* testWorker runs the script and sends the result.
TestWorkerSend(w) ==
    /\ testScripts.exitedBy = "none"
    /\ testScripts.workers[w] # <<>>
    /\ Len(testScripts.results) < testScripts.numTests
    /\ \E passed \in BOOLEAN :
          testScripts' = [testScripts EXCEPT
                            !.results = Append(@, [testName |-> testScripts.workers[w],
                                                   passed |-> passed]),
                            !.workers[w] = <<>>]
    /\ UNCHANGED <<presubmitVars, goPool, nodeRun, goCmd, presubmitTest>>

\* One round of the gathering loop: a result is received and its test deleted
\* from unfinishedTests. The map is not guarded: when the handler goroutine is
\* ranging over it at that moment the two accesses race, and the runtime either
\* lets both proceed or stops the process ("concurrent map iteration and map
\* write", exit status 2).
Gather ==
    /\ testScripts.exitedBy = "none"
    /\ testScripts.pc = "gather"
    /\ Len(testScripts.allTests) < testScripts.numTests
    /\ testScripts.results # <<>>
    /\ LET result == Head(testScripts.results)
           left == testScripts.unfinishedTests \ {result.testName}
       IN  \E fatal \in BOOLEAN :
              /\ fatal => testScripts.handler.pc = "range"
              /\ testScripts' =
                    IF fatal
                    THEN [testScripts EXCEPT !.exitedBy = "runtime", !.exitCode = 2]
                    ELSE [testScripts EXCEPT
                            !.results = Tail(@),
                            !.allTests = Append(@, result),
                            !.unfinishedTests = left,
                            !.handler.observable =
                                IF testScripts.handler.pc = "wait" THEN @ ELSE @ \cup {left}]
    /\ UNCHANGED <<presubmitVars, goPool, nodeRun, goCmd, presubmitTest>>

\* After the loop: the results are sorted and reported and runTestScripts
\* returns, which ends the command.
ReturnFromTests ==
    /\ testScripts.exitedBy = "none"
    /\ testScripts.pc = "gather"
    /\ Len(testScripts.allTests) = testScripts.numTests
    /\ LET failed == \E k \in 1..Len(testScripts.allTests) : ~testScripts.allTests[k].passed
       IN  testScripts' = [testScripts EXCEPT !.pc = "returned", !.exitedBy = "main",
                                              !.exitCode = IF failed THEN 1 ELSE 0]
    /\ UNCHANGED <<presubmitVars, goPool, nodeRun, goCmd, presubmitTest>>

\* The handler goroutine receives the signal and starts to range over
\* unfinishedTests.
HandlerReceive ==
    /\ testScripts.exitedBy = "none"
    /\ testScripts.handler.pc = "wait"
    /\ testScripts.sigchan # 0
    /\ testScripts' = [testScripts EXCEPT
                         !.sigchan = 0,
                         !.handler = [pc |-> "range", s |-> testScripts.sigchan, tests |-> {},
                                      afterSubmit |-> testScripts.pc # "send",
                                      observable |-> {testScripts.unfinishedTests}]]
    /\ UNCHANGED <<presubmitVars, goPool, nodeRun, goCmd, presubmitTest>>

\* One round of "for test := range unfinishedTests": the next key, in no
\* particular order, among those still in the map; the loop ends when none is left.
HandlerRange ==
    /\ testScripts.exitedBy = "none"
    /\ testScripts.handler.pc = "range"
    /\ LET rest == testScripts.unfinishedTests \ testScripts.handler.tests
       IN  IF rest = {}
           THEN testScripts' = [testScripts EXCEPT !.handler.pc = "print"]
           ELSE \E test \in rest :
                   testScripts' = [testScripts EXCEPT !.handler.tests = @ \cup {test}]
    /\ UNCHANGED <<presubmitVars, goPool, nodeRun, goCmd, presubmitTest>>

\* The handler sorts and prints the tests and ends the process.
HandlerExit ==
    /\ testScripts.exitedBy = "none"
    /\ testScripts.handler.pc = "print"
    /\ testScripts' = [testScripts EXCEPT
                         !.printed = SortStrings(testScripts.handler.tests),
                         !.handler.pc = "exited",
                         !.exitedBy = "handler",
                         !.exitCode = 128 + testScripts.handler.s]
    /\ UNCHANGED <<presubmitVars, goPool, nodeRun, goCmd, presubmitTest>>

TestScriptsNext ==
    \/ Signal
    \/ SendJob
    \/ \E w \in DOMAIN testScripts.workers : TestWorkerReceive(w)
    \/ \E w \in DOMAIN testScripts.workers : TestWorkerSend(w)
    \/ Gather
    \/ ReturnFromTests
    \/ HandlerReceive
    \/ HandlerRange
    \/ HandlerExit

SpecTestScripts == TestScriptsInit /\ [][TestScriptsNext]_vars

\* C17: when the handler has taken a signal that arrived after the jobs were
\* submitted and the process has ended otherwise than by the return of the main
\* routine, then the handler ended it, with status 128 + signal, after printing,
\* sorted by name, exactly the tests that were not yet collected at some moment
\* between the receipt of the signal and the print.
C17_UnfinishedTestsPrinted ==
    (testScripts.exitedBy \in {"handler", "runtime"} /\ testScripts.handler.afterSubmit) =>
        /\ testScripts.exitedBy = "handler"
        /\ testScripts.exitCode = 128 + testScripts.handler.s
        /\ \E tests \in testScripts.handler.observable :
              testScripts.printed = SortStrings(tests)

\* Whatever the handler prints was, at some moment since it took the signal,
\* the set of unfinished tests. (Violated: a test collected while the handler
\* ranges over the map may be printed together with tests that were deleted
\* later than others it never saw.)
PrintedWasUnfinishedAtSomeMoment ==
    (testScripts.exitedBy = "handler" /\ testScripts.handler.afterSubmit) =>
        \E tests \in testScripts.handler.observable :
            testScripts.printed = SortStrings(tests)

----------------------------------------------------------------------------
(* vcloud: nodeInfos.run and RunCopyAndRun *)

\* The most nodes that match, and the largest value of the -p flag.
MaxNodes == 3
MaxP == 2

\* A variant of parallel that runs all nodes at once when -p is 0.
parallel_AllWhenZero(flagP, numNodes) ==
    IF flagP <= 0 THEN numNodes ELSE flagP

\* The capacity of the semaphore of nodeInfos.run.
parallel(flagP, numNodes) ==
    IF flagP = 0 THEN 1
    ELSE IF flagP < 0 THEN numNodes
    ELSE flagP

\* What a command on a node returns: no output, and an error or none ("").
\* failing holds the commands that fail on the node.
nodeCommand(cmd, failing) == [out |-> <<>>, err |-> IF cmd \in failing THEN cmd ELSE ""]

\* runResult.Merge: a line "msg FAIL: r.err" first when both results hold an
\* error, then the line msg and the output of r2; the error of r2 wins.
Merge(r, r2, msg) ==
    [r EXCEPT
        !.err = IF r2.err # "" THEN r2.err ELSE @,
        !.out = @ \o (IF r2.err # "" /\ r.err # ""
                      THEN << [msg |-> msg, fail |-> r.err] >> ELSE <<>>)
                  \o << [msg |-> msg, fail |-> ""] >> \o r2.out]

\* The temporary directory ("./tmp_" and a random number), the literal that
\* stands for it in a command line, and the files to copy.
tmpdir == <<".", "/", "t", "m", "p", "_", "7">>
Str_TMPDIR == <<"+", "T", "M", "P", "D", "I", "R">>
runFiles == << <<"b", "i", "n", "/", "r", "u", "n", ".", "s", "h">> >>

\* The command line of step 3: the first file in the temporary directory when
\* no command is given, else the command with +TMPDIR replaced in every word.
expandCmdline(cmdline) ==
    IF Len(cmdline) = 0
    THEN << tmpdir \o <<"/">> \o SubSeq(runFiles[1], LastIndex(runFiles[1], "/") + 1,
                                        Len(runFiles[1])) >>
    ELSE [i \in 1..Len(cmdline) |-> Replace(cmdline[i], Str_TMPDIR, tmpdir)]

\* A variant of the function of RunCopyAndRun that leaves the temporary
\* directory in place when the copy fails.
copyAndRun_KeepTmpdirOnCopyFailure(node, cmdline, failing) ==
    LET r0 == [node |-> node, out |-> <<>>, err |-> "", skipped |-> FALSE]
        r1 == Merge(r0, nodeCommand("mkdir", failing), [text |-> "create tmpdir", args |-> <<tmpdir>>])
        r2 == Merge(r1, nodeCommand("copy", failing), [text |-> "copy files", args |-> runFiles])
        r3 == IF r2.err = ""
              THEN Merge(r2, nodeCommand("run", failing),
                         [text |-> "run cmdline", args |-> expandCmdline(cmdline)])
              ELSE r2
    IN  IF r1.err # "" THEN r1
        ELSE IF r2.err # "" THEN r2
        ELSE Merge(r3, nodeCommand("rm", failing), [text |-> "delete tmpdir", args |-> <<tmpdir>>])

\* The function RunCopyAndRun runs on each node.
copyAndRun(node, cmdline, failing) ==
    LET r0 == [node |-> node, out |-> <<>>, err |-> "", skipped |-> FALSE]
        r1 == Merge(r0, nodeCommand("mkdir", failing), [text |-> "create tmpdir", args |-> <<tmpdir>>])
        r2 == Merge(r1, nodeCommand("copy", failing), [text |-> "copy files", args |-> runFiles])
        r3 == IF r2.err = ""
              THEN Merge(r2, nodeCommand("run", failing),
                         [text |-> "run cmdline", args |-> expandCmdline(cmdline)])
              ELSE r2
    IN  IF r1.err # "" THEN r1
        ELSE Merge(r3, nodeCommand("rm", failing), [text |-> "delete tmpdir", args |-> <<tmpdir>>])

\* nodeInfos.run up to the start of the spawning goroutine; the nodes are
\* numbered 1..numNodes in the order of x.
NodeRunInit ==
    /\ \E n \in 0..MaxNodes, flagP \in -1..MaxP, flagFailFast \in BOOLEAN :
          nodeRun = [numNodes |-> n, flagP |-> flagP, flagFailFast |-> flagFailFast,
                     parallel |-> parallel(flagP, n),
                     i |-> 1, semaphore |-> 0, failFast |-> "open", results |-> <<>>,
                     workers |-> [k \in 1..n |-> "unstarted"],
                     printed |-> <<>>, retval |-> "none", panic |-> FALSE]
    /\ PresubmitIdle
    /\ goPool = NotRunning
    /\ testScripts = NotRunning
    /\ goCmd = NotRunning
    /\ presubmitTest = NotRunning

\* The spawning goroutine at its select, first case: the semaphore has room
\* and a goroutine is started for the node.
SpawnNode ==
    /\ nodeRun.i <= nodeRun.numNodes
    /\ nodeRun.workers[nodeRun.i] = "unstarted"
    /\ nodeRun.semaphore < nodeRun.parallel
    /\ nodeRun' = [nodeRun EXCEPT !.semaphore = @ + 1,
                                  !.workers[nodeRun.i] = "fn",
                                  !.i = @ + 1]
    /\ UNCHANGED <<presubmitVars, goPool, testScripts, goCmd, presubmitTest>>

\* The spawning goroutine at its select, second case: failFast is closed, and a
\* skipped result is sent for this and every later node. When both cases are
\* ready, select takes either.
SkipRemaining ==
    /\ nodeRun.i <= nodeRun.numNodes
    /\ nodeRun.workers[nodeRun.i] = "unstarted"
    /\ nodeRun.failFast = "closed"
    /\ LET rest == nodeRun.numNodes - nodeRun.i + 1
       IN  /\ Len(nodeRun.results) + rest <= nodeRun.numNodes
           /\ nodeRun' = [nodeRun EXCEPT
                            !.results = @ \o [j \in 1..rest |->
                                                [node |-> nodeRun.i + j - 1, out |-> <<>>,
                                                 err |-> "", skipped |-> TRUE]],
                            !.workers = [k \in 1..nodeRun.numNodes |->
                                            IF k >= nodeRun.i THEN "skipped" ELSE @[k]],
                            !.i = nodeRun.numNodes + 1]
    /\ UNCHANGED <<presubmitVars, goPool, testScripts, goCmd, presubmitTest>>

\* A goroutine runs fn on its node and sends the result. Of the result of fn
\* (of RunCopy, RunCommand or RunCopyAndRun) run looks at the error only.
NodeFn(k) ==
    /\ nodeRun.workers[k] = "fn"
    /\ Len(nodeRun.results) < nodeRun.numNodes
    /\ \E err \in {"", "exit status 1"} :
          nodeRun' = [nodeRun EXCEPT
                        !.results = Append(@, [node |-> k, out |-> <<>>, err |-> err,
                                               skipped |-> FALSE]),
                        !.workers[k] = "release"]
    /\ UNCHANGED <<presubmitVars, goPool, testScripts, goCmd, presubmitTest>>

\* The goroutine gives its place in the semaphore back.
NodeRelease(k) ==
    /\ nodeRun.workers[k] = "release"
    /\ nodeRun.semaphore > 0
    /\ nodeRun' = [nodeRun EXCEPT !.semaphore = @ - 1, !.workers[k] = "exited"]
    /\ UNCHANGED <<presubmitVars, goPool, testScripts, goCmd, presubmitTest>>

\* The nodes of the results printed so far that are neither skipped nor done.
failOf(printed) == SelectSeq(printed, LAMBDA r : ~r.skipped /\ r.err # "")

\* A variant of the collection loop that closes failFast on every failure.
CollectNodeResult_CloseOnEveryFailure ==
    /\ Len(nodeRun.printed) < nodeRun.numNodes
    /\ nodeRun.results # <<>>
    /\ LET result == Head(nodeRun.results)
           printed == Append(nodeRun.printed, result)
           close == /\ ~result.skipped /\ result.err # ""
                    /\ nodeRun.flagFailFast /\ Len(failOf(printed)) >= 1
       IN  nodeRun' = [nodeRun EXCEPT
                         !.results = Tail(@),
                         !.printed = printed,
                         !.failFast = IF close THEN "closed" ELSE @,
                         !.panic = @ \/ (close /\ nodeRun.failFast = "closed")]
    /\ UNCHANGED <<presubmitVars, goPool, testScripts, goCmd, presubmitTest>>

\* One round of the collection loop: the result is printed and counted; the
\* first failure closes failFast when -failfast is set (closing a closed channel
\* panics).
CollectNodeResult ==
    /\ Len(nodeRun.printed) < nodeRun.numNodes
    /\ nodeRun.results # <<>>
    /\ LET result == Head(nodeRun.results)
           printed == Append(nodeRun.printed, result)
           close == /\ ~result.skipped /\ result.err # ""
                    /\ nodeRun.flagFailFast /\ Len(failOf(printed)) = 1
       IN  nodeRun' = [nodeRun EXCEPT
                         !.results = Tail(@),
                         !.printed = printed,
                         !.failFast = IF close THEN "closed" ELSE @,
                         !.panic = @ \/ (close /\ nodeRun.failFast = "closed")]
    /\ UNCHANGED <<presubmitVars, goPool, testScripts, goCmd, presubmitTest>>

\* After the loop: an error when a node failed.
NodeRunReturn ==
    /\ nodeRun.retval = "none"
    /\ Len(nodeRun.printed) = nodeRun.numNodes
    /\ nodeRun' = [nodeRun EXCEPT
                     !.retval = IF Len(failOf(nodeRun.printed)) > 0 THEN "error" ELSE "nil"]
    /\ UNCHANGED <<presubmitVars, goPool, testScripts, goCmd, presubmitTest>>

NodeRunNext ==
    \/ SpawnNode
    \/ SkipRemaining
    \/ \E k \in DOMAIN nodeRun.workers : NodeFn(k)
    \/ \E k \in DOMAIN nodeRun.workers : NodeRelease(k)
    \/ CollectNodeResult
    \/ NodeRunReturn

SpecNodeRun == NodeRunInit /\ [][NodeRunNext]_vars

\* The nodes on which fn is running.
InFlight == {k \in DOMAIN nodeRun.workers : nodeRun.workers[k] = "fn"}

\* The bound on the nodes in parallel that the -p flag stands for.
AtMost ==
    CASE nodeRun.flagP \in {0, 1} -> 1
      [] nodeRun.flagP >= 2 -> nodeRun.flagP
      [] nodeRun.flagP < 0 -> nodeRun.numNodes

\* C18: the invocations of fn in flight never exceed P, where P is 1 when -p is
\* 0 or 1, -p when it is 2 or more, and the number of nodes when it is negative.
C18_AtMostPInFlight == Cardinality(InFlight) <= AtMost

\* With -p 2, fn runs on two nodes while a third waits for the semaphore.
C18_Witness ==
    /\ nodeRun.flagP = 2
    /\ Cardinality(InFlight) = 2
    /\ nodeRun.i = 3
    /\ nodeRun.numNodes = 3

\* The first failing result has been observed under -failfast.
FailureObserved == nodeRun.flagFailFast /\ Len(failOf(nodeRun.printed)) > 0

\* C19: with -failfast, from the moment the first failing result has been
\* observed, no node that is still unstarted is started: it stays unstarted
\* until it is skipped; and every node that was never started is printed as a
\* skipped result (SKIP).
C19_NoStartAfterFirstFailure ==
    /\ [][FailureObserved =>
             \A k \in DOMAIN nodeRun.workers :
                 nodeRun.workers[k] = "unstarted" =>
                     nodeRun'.workers[k] \in {"unstarted", "skipped"}]_vars
    /\ [](nodeRun.retval # "none" =>
             \A k \in DOMAIN nodeRun.workers :
                 /\ nodeRun.workers[k] # "unstarted"
                 /\ nodeRun.workers[k] = "skipped" <=>
                       \E j \in 1..Len(nodeRun.printed) :
                           nodeRun.printed[j].node = k /\ nodeRun.printed[j].skipped)

\* What holds of -failfast: a node is skipped only after a failure has been
\* observed, every node gets exactly one result, and a node that was not
\* started is printed as skipped.
SkippedOnlyAfterFailure ==
    /\ (\E k \in DOMAIN nodeRun.workers : nodeRun.workers[k] = "skipped") => FailureObserved
    /\ nodeRun.retval # "none" =>
          \A k \in DOMAIN nodeRun.workers :
              /\ Cardinality({j \in 1..Len(nodeRun.printed) : nodeRun.printed[j].node = k}) = 1
              /\ nodeRun.workers[k] = "skipped" <=>
                    \E j \in 1..Len(nodeRun.printed) :
                        nodeRun.printed[j].node = k /\ nodeRun.printed[j].skipped

----------------------------------------------------------------------------
(* vcloud run: the steps on one node *)

\* The command lines given after "++": none, or one that names +TMPDIR.
Cmdlines == { <<>>, << <<"s", "h">>, Str_TMPDIR \o <<"/", "r", "u", "n", ".", "s", "h">>, Str_TMPDIR >> }

\* fn is about to run on a node; failing holds the commands that fail there.
CopyAndRunInit ==
    /\ \E node \in 1..MaxNodes, cmdline \in Cmdlines,
          failing \in SUBSET {"mkdir", "copy", "run", "rm"} :
          nodeRun = [pc |-> "fn", node |-> node, cmdline |-> cmdline, failing |-> failing,
                     result |-> [node |-> node, out |-> <<>>, err |-> "", skipped |-> FALSE]]
    /\ PresubmitIdle
    /\ goPool = NotRunning
    /\ testScripts = NotRunning
    /\ goCmd = NotRunning
    /\ presubmitTest = NotRunning

\* fn runs on the node.
CopyAndRunFn ==
    /\ nodeRun.pc = "fn"
    /\ nodeRun' = [nodeRun EXCEPT
                     !.pc = "returned",
                     !.result = copyAndRun(nodeRun.node, nodeRun.cmdline, nodeRun.failing)]
    /\ UNCHANGED <<presubmitVars, goPool, testScripts, goCmd, presubmitTest>>

SpecCopyAndRun == CopyAndRunInit /\ [][CopyAndRunFn]_vars

\* The steps fn took, in order: the lines of the output without the FAIL lines.
StepsTaken ==
    LET steps == SelectSeq(nodeRun.result.out, LAMBDA line : line.fail = "")
    IN  [j \in 1..Len(steps) |-> steps[j].msg.text]

\* C20: on a node fn takes the steps create-tmpdir, copy, run, delete-tmpdir in
\* this order; the copy is made only if the create succeeded, the command is run
\* only if the copy succeeded, and the directory is deleted whenever it was
\* created, whether or not the copy or the command failed.
C20_StepsInOrder ==
    nodeRun.pc = "returned" =>
        StepsTaken =
            <<"create tmpdir">>
              \o (IF "mkdir" \in nodeRun.failing THEN <<>>
                  ELSE <<"copy files">>
                         \o (IF "copy" \in nodeRun.failing THEN <<>> ELSE <<"run cmdline">>)
                         \o <<"delete tmpdir">>)

\* The copy failed on a node: the command was not run and the directory deleted.
C20_Witness ==
    /\ nodeRun.pc = "returned"
    /\ nodeRun.failing = {"copy"}
    /\ StepsTaken = <<"create tmpdir", "copy files", "delete tmpdir">>
    /\ nodeRun.result.err = "copy"

----------------------------------------------------------------------------
(* Properties of the postsubmit status *)

\* The highest-numbered build of a job that completed at or before a timestamp.
BuildBefore(job, timestamp) ==
    CHOOSE n \in BuildsAtOrBefore(job, timestamp) :
        \A m \in BuildsAtOrBefore(job, timestamp) : m <= n

\* C22: the status the summary shows for the postsubmit job of a shard is the
\* result of the build that ran before the shard's timestamp: the
\* highest-numbered build, walking down from the last completed one, whose
\* timestamp is at or before it, and not the result of a later build.
C22_StatusOfBuildBeforeTimestamp ==
    SummaryWritten =>
        \A i \in 1..Len(testResults) :
            (testResults[i].Result.Status # TestSkipped /\ ~StatusUnresolvable(i)) =>
                LET job == JobOfShard(i)
                    build == job.builds[BuildBefore(job, testResults[i].Timestamp)]
                IN  SummaryLines[i].last =
                        IF build.Result = "SUCCESS" THEN CheckMark ELSE CrossMark

----------------------------------------------------------------------------
(* Properties of the vote *)

\* C26: the report is posted with success exactly when the NEW group is empty,
\* that is when the report has no NEW section; the votes follow it (+1 with an
\* empty NEW group, -1 otherwise), whatever the KNOWN and FIXED groups hold and
\* whether or not shards timed out or failed without a readable report.
C26_VoteFollowsNewGroup ==
    (pc = "done" /\ SummaryWritten) =>
        /\ Len(postCalls) = 1
        /\ postCalls[1].success <=> groups[newFailure] = <<>>
        /\ postCalls[1].success <=> RenderedLinks(newFailure) = <<>>
        /\ \A k \in 1..Len(reviews) :
              reviews[k].labels \subseteq
                  {<<"Verified", IF groups[newFailure] = <<>> THEN "1" ELSE "-1">>}

\* A positive vote was posted although a shard timed out or failed without a
\* decoded report, and the report lists known failures.
C26_Witness ==
    /\ pc = "done"
    /\ SummaryWritten
    /\ postCalls[1].success
    /\ groups[knownFailure] # <<>>
    /\ \E i \in 1..Len(testResults) :
          \/ testResults[i].Result.Status = TestTimedOut
          \/ testResults[i].Result.Status = TestFailed /\ ~Decoded(i)
    /\ \E k \in 1..Len(reviews) : reviews[k].labels = {<<"Verified", "1">>}

----------------------------------------------------------------------------
(* Properties of the key of the counter *)

\* The identities of the cases of the i-th shard's report, in document order:
\* class name, test name and executor label.
IdentitiesOfShard(i) ==
    IF Decoded(i)
    THEN SelectSeq(Pairs(ReportCases(i),
                         LAMBDA c : [ClassName |-> CaseClassname(c), Name |-> CaseName(c),
                                     SlaveLabel |-> testResults[i].SlaveLabel]),
                   LAMBDA k : TRUE)
    ELSE <<>>

RECURSIVE IdentitiesOfShards(_)
IdentitiesOfShards(n) ==
    IF n = 0 THEN <<>> ELSE Append(IdentitiesOfShards(n - 1), IdentitiesOfShard(n))

\* C27: encounters share a counter only when they agree in class name, test name
\* and executor label: the count recorded with a failing case is the number of
\* encounters so far of cases with its class name, its test name and its label.
C27_CounterPerIdentity ==
    InLoop =>
        LET ids == IdentitiesOfShards(Len(shardLog))
        IN  \A i \in 1..Len(shardLog) : \A t \in {newFailure, knownFailure} :
                Decoded(i) =>
                    LET at == FailingPositions(i, t)
                        infos == shardLog[i].groups[t]
                    IN  \A m \in 1..Len(infos) :
                            infos[m].seenTestsCount =
                                EncountersInShards(ids, i - 1, ids[i][at[m]])
                                  + Encounters(ids[i], at[m], ids[i][at[m]])

----------------------------------------------------------------------------
(* nodeInfos.run: termination *)

\* The goroutines that can take a step are scheduled: the spawning goroutine,
\* the goroutines of the nodes and the collecting loop; fn returns.
FairSpecNodeRun == NodeRunInit /\ [][NodeRunNext]_vars /\ WF_vars(NodeRunNext)

\* The nodes of the printed results that are skipped, failed and done.
SkipNodes == {nodeRun.printed[j].node :
                 j \in {n \in 1..Len(nodeRun.printed) : nodeRun.printed[n].skipped}}
FailNodes == {nodeRun.printed[j].node :
                 j \in {n \in 1..Len(nodeRun.printed) :
                           ~nodeRun.printed[n].skipped /\ nodeRun.printed[n].err # ""}}
DoneNodes == {nodeRun.printed[j].node :
                 j \in {n \in 1..Len(nodeRun.printed) :
                           ~nodeRun.printed[n].skipped /\ nodeRun.printed[n].err = ""}}

\* run has returned after one result per node, each node in one of the three
\* sets, with an error exactly when a node failed.
ReturnedWithOneResultPerNode ==
    /\ Len(nodeRun.printed) = nodeRun.numNodes
    /\ \A k \in 1..nodeRun.numNodes :
          Cardinality({j \in 1..Len(nodeRun.printed) : nodeRun.printed[j].node = k}) = 1
    /\ SkipNodes \cup FailNodes \cup DoneNodes = 1..nodeRun.numNodes
    /\ SkipNodes \cap FailNodes = {} /\ SkipNodes \cap DoneNodes = {}
    /\ FailNodes \cap DoneNodes = {}
    /\ nodeRun.retval = "error" <=> FailNodes # {}
    /\ \A k \in SkipNodes : nodeRun.workers[k] = "skipped"
    /\ \A k \in FailNodes \cup DoneNodes : nodeRun.workers[k] \in {"release", "exited"}

\* C23: run returns in the end, whatever -p and -failfast are; when it has
\* returned it has received exactly one result per node, run or skipped, each
\* node is in exactly one of done, fail and skip, and the error is returned
\* exactly when a node failed; failFast is never closed twice.
C23_RunTerminates ==
    /\ <>(nodeRun.retval # "none")
    /\ [](nodeRun.retval # "none" => ReturnedWithOneResultPerNode)
    /\ [](~nodeRun.panic)

\* run returned an error under -failfast with one node done, one failed and one
\* skipped.
C23_Witness ==
    /\ nodeRun.retval = "error"
    /\ nodeRun.flagFailFast
    /\ nodeRun.flagP = 1
    /\ Cardinality(SkipNodes) = 1
    /\ Cardinality(FailNodes) = 1
    /\ Cardinality(DoneNodes) = 1

----------------------------------------------------------------------------
(* runTestScripts: the two goroutines that use unfinishedTests *)

\* C29: while the handler goroutine ranges over unfinishedTests, the loop that
\* collects the results removes nothing from the map.
C29_NoDeleteWhileHandlerRanges ==
    [][(testScripts.pc = "gather" /\ testScripts.handler.pc = "range")
          => testScripts'.unfinishedTests = testScripts.unfinishedTests]_vars

----------------------------------------------------------------------------
(* jiri go (src/jiri-go/go.go): runGo and processGoCmdAndArgs.  The argument
   list of the command is its first argument, the go subcommand cmd, and the
   arguments after it, rest; every argument of rest is a string, a sequence
   of characters. *)

MaxArgs == 3

\* strings.HasPrefix and strings.HasSuffix.
HasPrefix(s, prefix) ==
    Len(s) >= Len(prefix) /\ SubSeq(s, 1, Len(prefix)) = prefix
HasSuffix(s, suffix) ==
    Len(s) >= Len(suffix) /\ SubSeq(s, Len(s) - Len(suffix) + 1, Len(s)) = suffix

\* The subcommands the argument lists are drawn from ("vet" stands for the
\* subcommands runGo has no case for) and the arguments after the subcommand.
GoSubcommands == {"build", "install", "generate", "run", "test", "vet"}
GoArgs ==
    { <<"-", "t", "a", "g", "s">>, <<"-", "t", "a", "g", "s", "=", "x">>, <<"-", "o">>,
      <<"-", "v">>, <<"-", "-">>, <<"a">>, <<"a", ".", "g", "o">> }

\* The non-boolean flags of a subcommand, by name.
nonBoolBuild ==
    { <<"p">>, <<"c", "c", "f", "l", "a", "g", "s">>, <<"c", "o", "m", "p", "i", "l", "e", "r">>,
      <<"g", "c", "c", "g", "o", "f", "l", "a", "g", "s">>, <<"g", "c", "f", "l", "a", "g", "s">>,
      <<"i", "n", "s", "t", "a", "l", "l", "s", "u", "f", "f", "i", "x">>,
      <<"l", "d", "f", "l", "a", "g", "s">>, <<"t", "a", "g", "s">> }
nonBoolTest ==
    { <<"b", "e", "n", "c", "h">>, <<"b", "e", "n", "c", "h", "t", "i", "m", "e">>,
      <<"b", "l", "o", "c", "k", "p", "r", "o", "f", "i", "l", "e">>,
      <<"b", "l", "o", "c", "k", "p", "r", "o", "f", "i", "l", "e", "r", "a", "t", "e">>,
      <<"c", "o", "v", "e", "r", "m", "o", "d", "e">>, <<"c", "o", "v", "e", "r", "p", "k", "g">>,
      <<"c", "o", "v", "e", "r", "p", "r", "o", "f", "i", "l", "e">>, <<"c", "p", "u">>,
      <<"c", "p", "u", "p", "r", "o", "f", "i", "l", "e">>,
      <<"m", "e", "m", "p", "r", "o", "f", "i", "l", "e">>,
      <<"m", "e", "m", "p", "r", "o", "f", "i", "l", "e", "r", "a", "t", "e">>,
      <<"o", "u", "t", "p", "u", "t", "d", "i", "r">>, <<"p", "a", "r", "a", "l", "l", "e", "l">>,
      <<"r", "u", "n">>, <<"t", "i", "m", "e", "o", "u", "t">> }
nonBool(cmd) ==
    CASE cmd = "build" -> nonBoolBuild \cup { <<"o">> }
      [] cmd = "generate" -> { <<"r", "u", "n">> }
      [] cmd = "install" -> nonBoolBuild
      [] cmd = "run" -> nonBoolBuild \cup { <<"e", "x", "e", "c">> }
      [] cmd = "test" -> nonBoolBuild \cup nonBoolTest \cup { <<"e", "x", "e", "c">> }
      [] OTHER -> {}

\* goFlagRE.FindStringSubmatch for ^--?([^=]+)(=?)(.*): one or two dashes, the
\* longest run of characters other than "=" (the second dash belongs to the
\* run when nothing else could), an optional "=", and the rest.
goFlagRE(arg) ==
    LET nomatch == [matched |-> FALSE, name |-> <<>>, eq |-> "", value |-> <<>>]
    IN  IF Len(arg) < 2 \/ arg[1] # "-" THEN nomatch
        ELSE LET from == IF arg[2] = "-" /\ Len(arg) >= 3 /\ arg[3] # "=" THEN 3 ELSE 2
                 eqs == {j \in from..Len(arg) : arg[j] = "="}
                 stop == IF eqs = {} THEN Len(arg) + 1
                         ELSE CHOOSE j \in eqs : \A k \in eqs : j <= k
             IN  IF stop = from THEN nomatch
                 ELSE [matched |-> TRUE, name |-> SubSeq(arg, from, stop - 1),
                       eq |-> IF stop <= Len(arg) THEN "=" ELSE "",
                       value |-> SubSeq(arg, stop + 1, Len(arg))]

\* The loop of processGoCmdAndArgs that moves start over the flags; start
\* counts from 0 as in the source, and args[start-1] outside args is a panic.
RECURSIVE skipFlags(_, _, _, _)
skipFlags(cmd, args, start, goTags) ==
    IF start >= Len(args) THEN [start |-> start, goTags |-> goTags, panic |-> FALSE]
    ELSE IF args[start + 1] = <<"-", "-">>
    THEN [start |-> start + 1, goTags |-> goTags, panic |-> FALSE]
    ELSE LET match == goFlagRE(args[start + 1])
             next == IF match.name \in nonBool(cmd) /\ match.eq = ""
                     THEN start + 2 ELSE start + 1
         IN  IF ~match.matched THEN [start |-> start, goTags |-> goTags, panic |-> FALSE]
             ELSE IF match.name # <<"t", "a", "g", "s">>
             THEN skipFlags(cmd, args, next, goTags)
             ELSE IF match.eq = "=" THEN skipFlags(cmd, args, next, match.value)
             ELSE IF next - 1 >= Len(args)
             THEN [start |-> next, goTags |-> goTags, panic |-> TRUE]
             ELSE skipFlags(cmd, args, next, args[next])

\* The end of PACKAGES or GOFILES, counted from 0.
RECURSIVE endOfPackages(_, _, _)
endOfPackages(cmd, args, end) ==
    IF cmd \notin {"test", "run"} THEN Len(args)
    ELSE IF end >= Len(args) THEN end
    ELSE IF cmd = "test" /\ HasPrefix(args[end + 1], <<"-">>) THEN end
    ELSE IF cmd = "run" /\ ~HasSuffix(args[end + 1], <<".", "g", "o">>) THEN end
    ELSE endOfPackages(cmd, args, end + 1)

\* processGoCmdAndArgs: the packages, the files and the tags, or a panic when
\* an index or a slice expression is out of range.
processGoCmdAndArgs(cmd, args) ==
    LET skipped == skipFlags(cmd, args, 0, <<>>)
        start == skipped.start
        end == endOfPackages(cmd, args, start)
        result(pkgs, files, panic) ==
            [pkgs |-> pkgs, files |-> files, goTags |-> skipped.goTags, panic |-> panic,
             start |-> start, end |-> end]
    IN  IF skipped.panic THEN result(<<>>, <<>>, TRUE)
        ELSE IF start = end THEN result(<<>>, <<>>, FALSE)
        ELSE IF start < Len(args) /\ HasSuffix(args[start + 1], <<".", "g", "o">>)
        THEN result(<<>>, SubSeq(args, start + 1, end), FALSE)
        ELSE IF start > end THEN result(<<>>, <<>>, TRUE)
        ELSE result(SubSeq(args, start + 1, end), <<>>, FALSE)

\* Sequences over S of length at most n.
SeqsUpTo(S, n) == UNION { [1..k -> S] : k \in 0..n }

\* runGo is called with an argument list: none, or a subcommand and up to
\* MaxArgs arguments after it.
RunGoInit ==
    /\ \E empty \in BOOLEAN, cmd \in GoSubcommands, args \in SeqsUpTo(GoArgs, MaxArgs) :
          /\ empty => (cmd = "vet" /\ args = <<>>)
          /\ goCmd = [pc |-> "runGo", empty |-> empty, cmd |-> cmd, args |-> args,
                      log |-> <<>>, retval |-> "none"]
    /\ PresubmitIdle
    /\ goPool = NotRunning
    /\ testScripts = NotRunning
    /\ nodeRun = NotRunning
    /\ presubmitTest = NotRunning

\* What a step of runGo did: the step and whether it succeeded.
Logged(step, ok) == Append(goCmd.log, [step |-> step, ok |-> ok])

\* The start of runGo: the usage error for an empty list, the Vanadium
\* environment, and the switch on the subcommand.
RunGoEnter ==
    /\ goCmd.pc = "runGo"
    /\ IF goCmd.empty
       THEN goCmd' = [goCmd EXCEPT !.pc = "returned", !.retval = "usage"]
       ELSE \E ok \in BOOLEAN :
               goCmd' = [goCmd EXCEPT
                           !.log = Logged("VanadiumEnvironment", ok),
                           !.pc = IF ~ok THEN "returned"
                                  ELSE IF goCmd.cmd \in {"build", "install"}
                                  THEN "setBuildInfoFlags"
                                  ELSE IF goCmd.cmd \in {"generate", "run", "test"}
                                  THEN "reportOutdatedBranches"
                                  ELSE "go",
                           !.retval = IF ok THEN @ ELSE "error"]
    /\ UNCHANGED <<presubmitVars, goPool, testScripts, nodeRun, presubmitTest>>

\* build and install: the -ldflags argument is put after the subcommand.
SetBuildInfoFlags ==
    /\ goCmd.pc = "setBuildInfoFlags"
    /\ \E ok \in BOOLEAN :
          goCmd' = [goCmd EXCEPT
                      !.log = Logged("setBuildInfoFlags", ok),
                      !.args = IF ok THEN << <<"-", "l", "d", "f", "l", "a", "g", "s", "=", "m">> >> \o @
                               ELSE @,
                      !.pc = IF ok THEN "reportOutdatedBranches" ELSE "returned",
                      !.retval = IF ok THEN @ ELSE "error"]
    /\ UNCHANGED <<presubmitVars, goPool, testScripts, nodeRun, presubmitTest>>

\* A variant of the check of the branches whose error is not returned.
ReportOutdatedBranches_IgnoreError ==
    /\ goCmd.pc = "reportOutdatedBranches"
    /\ \E ok \in BOOLEAN :
          goCmd' = [goCmd EXCEPT
                      !.log = Logged("reportOutdatedBranches", ok),
                      !.pc = "generateVDL"]
    /\ UNCHANGED <<presubmitVars, goPool, testScripts, nodeRun, presubmitTest>>

\* The check that the branches are merged with master.
ReportOutdatedBranches ==
    /\ goCmd.pc = "reportOutdatedBranches"
    /\ \E ok \in BOOLEAN :
          goCmd' = [goCmd EXCEPT
                      !.log = Logged("reportOutdatedBranches", ok),
                      !.pc = IF ok THEN "generateVDL" ELSE "returned",
                      !.retval = IF ok THEN @ ELSE "error"]
    /\ UNCHANGED <<presubmitVars, goPool, testScripts, nodeRun, presubmitTest>>

\* generateVDL: the packages of the arguments, their dependencies and the vdl
\* tool; a panic of processGoCmdAndArgs ends the command.
GenerateVDL ==
    /\ goCmd.pc = "generateVDL"
    /\ LET processed == processGoCmdAndArgs(goCmd.cmd, goCmd.args)
       IN  IF processed.panic
           THEN goCmd' = [goCmd EXCEPT !.pc = "returned", !.retval = "panic"]
           ELSE \E ok \in BOOLEAN :
                   goCmd' = [goCmd EXCEPT
                               !.log = Logged("generateVDL", ok),
                               !.pc = IF ok THEN "go" ELSE "returned",
                               !.retval = IF ok THEN @ ELSE "error"]
    /\ UNCHANGED <<presubmitVars, goPool, testScripts, nodeRun, presubmitTest>>

\* The go tool is looked up and run with the arguments; its exit code is the
\* result of runGo.
RunGoTool ==
    /\ goCmd.pc = "go"
    /\ \E found \in BOOLEAN, exit \in {0, 1} :
          /\ ~found => exit = 1
          /\ goCmd' = [goCmd EXCEPT
                         !.log = IF found THEN Append(Logged("LookPath", TRUE),
                                                      [step |-> "go", ok |-> exit = 0])
                                 ELSE Logged("LookPath", FALSE),
                         !.pc = "returned",
                         !.retval = IF exit = 0 THEN "ok" ELSE "error"]
    /\ UNCHANGED <<presubmitVars, goPool, testScripts, nodeRun, presubmitTest>>

RunGoNext ==
    \/ RunGoEnter
    \/ SetBuildInfoFlags
    \/ ReportOutdatedBranches
    \/ GenerateVDL
    \/ RunGoTool

SpecRunGo == RunGoInit /\ [][RunGoNext]_vars

\* C30: processGoCmdAndArgs returns for every subcommand and every argument
\* list, also one that ends with a non-boolean flag without its value: no
\* index and no slice expression is outside args.
C30_NoIndexOutsideArgs == goCmd.retval # "panic"

\* When processGoCmdAndArgs returns, the packages or files are the arguments
\* from start to end, after the flags it skipped.
PackagesAreContiguousAfterFlags ==
    (goCmd.pc \in {"generateVDL", "go"} /\ goCmd.cmd # "vet") =>
        LET processed == processGoCmdAndArgs(goCmd.cmd, goCmd.args)
        IN  ~processed.panic =>
               /\ processed.start <= processed.end /\ processed.end <= Len(goCmd.args)
               /\ processed.pkgs \o processed.files
                     = SubSeq(goCmd.args, processed.start + 1, processed.end)
               /\ processed.pkgs = <<>> \/ processed.files = <<>>
               /\ \A j \in 1..processed.start :
                     \/ goFlagRE(goCmd.args[j]).matched
                     \/ j > 1 /\ goFlagRE(goCmd.args[j - 1]).name \in nonBool(goCmd.cmd)

----------------------------------------------------------------------------
(* runGo: the steps before the go tool *)

\* The steps of runGo so far named step, and those that failed.
StepsNamed(step) == {j \in 1..Len(goCmd.log) : goCmd.log[j].step = step}
FailedSteps == {j \in 1..Len(goCmd.log) : goCmd.log[j].step # "go" /\ ~goCmd.log[j].ok}

\* C21: when the go tool is invoked for build, install, generate, run or test,
\* the check of the branches and then the VDL generation were performed before
\* it and both succeeded; after a failed step the go tool is not invoked; for
\* another subcommand neither step is performed, and the go tool is invoked
\* unless the environment or the go tool itself cannot be found.
C21_VDLBeforeGoTool ==
    /\ \A g \in StepsNamed("go") :
          IF goCmd.cmd \in {"build", "install", "generate", "run", "test"}
          THEN \E b \in StepsNamed("reportOutdatedBranches"), v \in StepsNamed("generateVDL") :
                  /\ b < v /\ v < g
                  /\ goCmd.log[b].ok /\ goCmd.log[v].ok
          ELSE StepsNamed("reportOutdatedBranches") \cup StepsNamed("generateVDL") = {}
    /\ FailedSteps # {} => StepsNamed("go") = {}
    /\ (/\ goCmd.pc = "returned" /\ ~goCmd.empty
        /\ goCmd.cmd \notin {"build", "install", "generate", "run", "test"}
        /\ FailedSteps = {})
          => /\ StepsNamed("go") # {}
             /\ StepsNamed("generateVDL") = {}

\* The go tool was invoked for go build with arguments, after both steps.
C21_Witness ==
    /\ goCmd.pc = "returned"
    /\ goCmd.cmd = "build"
    /\ Len(goCmd.args) > 1
    /\ StepsNamed("go") # {}
    /\ StepsNamed("generateVDL") # {}

----------------------------------------------------------------------------
(* presubmit test (src/unnamed/part_001): runTest and its attempts to prepare
   the presubmit test branch. *)

MaxCLs == 2
prepareTestBranchAttempts == 3

\* strings.Contains: substr occurs in s.
ContainsString(s, substr) ==
    \E j \in 0..(Len(s) - Len(substr)) : SubSeq(s, j + 1, j + Len(substr)) = substr

\* The texts runTest looks for in the error of an attempt.
Str_unable_to_access ==
    <<"u", "n", "a", "b", "l", "e", " ", "t", "o", " ", "a", "c", "c", "e", "s", "s">>
Str_git_pull == <<"g", "i", "t", " ", "p", "u", "l", "l">>

\* The errors preparePresubmitTestBranch is taken to return: none (the empty
\* text), a failed pull, no access to the host, a pull that failed for lack
\* of access, and another error.
PrepareErrors ==
    { <<>>,
      Str_git_pull \o <<":", " ", "c", "o", "n", "f", "l", "i", "c", "t">>,
      <<"f", "a", "t", "a", "l", ":", " ">> \o Str_unable_to_access,
      Str_git_pull \o <<":", " ">> \o Str_unable_to_access,
      <<"G", "e", "t", "w", "d", "(", ")", " ", "f", "a", "i", "l", "e", "d">> }

\* runTest is called for a number of CLs.
RunTestInit ==
    /\ \E n \in 1..MaxCLs :
          presubmitTest = [pc |-> "runTest", numCLs |-> n, i |-> 1, attempts |-> <<>>,
                           mergeConflictCL |-> 0, rebuilt |-> FALSE, ranTests |-> FALSE,
                           cleanedUp |-> FALSE, retval |-> "none"]
    /\ PresubmitIdle
    /\ goPool = NotRunning
    /\ testScripts = NotRunning
    /\ nodeRun = NotRunning
    /\ goCmd = NotRunning

\* runTest returns value from the state t: the deferred cleanupFn runs, and its
\* error is the result when there was none.
Returned(t, value, cleanupOk) ==
    [t EXCEPT !.pc = "returned", !.cleanedUp = TRUE,
              !.retval = IF value = "nil" /\ ~cleanupOk THEN "error" ELSE value]

\* The start of runTest: the sanity checks, the CLs and the manifest; after
\* them the cleanup is deferred.
RunTestEnter ==
    /\ presubmitTest.pc = "runTest"
    /\ \E failed \in {"none", "sanityChecks", "parseCLs", "ReadManifest"} :
          presubmitTest' =
             IF failed = "none" THEN [presubmitTest EXCEPT !.pc = "prepare"]
             ELSE [presubmitTest EXCEPT !.pc = "returned", !.retval = "error"]
    /\ UNCHANGED <<presubmitVars, goPool, testScripts, nodeRun, goCmd>>

\* recordMergeConflict from the state t: nil when the failure report cannot be
\* created, else the status file with the CL is written.
recordMergeConflict(t, failedCL, reportOk, statusOk) ==
    IF ~reportOk THEN [value |-> "nil", t |-> t]
    ELSE IF ~statusOk THEN [value |-> "error", t |-> t]
    ELSE [value |-> "nil", t |-> [t EXCEPT !.mergeConflictCL = failedCL]]

\* One round of the loop "for i := 1; i <= prepareTestBranchAttempts; i++": an
\* attempt of preparePresubmitTestBranch and what runTest does with its error;
\* when the loop ends, runTest goes on to rebuild the tools.
PrepareAttempt ==
    /\ presubmitTest.pc = "prepare"
    /\ \E err \in PrepareErrors, failedCL \in 1..presubmitTest.numCLs,
          reportOk \in BOOLEAN, statusOk \in BOOLEAN, cleanupOk \in BOOLEAN :
          LET t == [presubmitTest EXCEPT !.attempts = Append(@, err)]
              recorded == recordMergeConflict(t, failedCL, reportOk, statusOk)
          IN  presubmitTest' =
                 IF err = <<>> THEN [t EXCEPT !.pc = "rebuild"]
                 ELSE IF ContainsString(err, Str_unable_to_access)
                 THEN IF t.i + 1 <= prepareTestBranchAttempts
                      THEN [t EXCEPT !.i = @ + 1]
                      ELSE [t EXCEPT !.i = @ + 1, !.pc = "rebuild"]
                 ELSE IF ContainsString(err, Str_git_pull)
                 THEN Returned(recorded.t, recorded.value, cleanupOk)
                 ELSE Returned(t, "error", cleanupOk)
    /\ UNCHANGED <<presubmitVars, goPool, testScripts, nodeRun, goCmd>>

\* The developer tools are rebuilt; errors are printed and do not stop runTest.
RebuildDeveloperTools ==
    /\ presubmitTest.pc = "rebuild"
    /\ presubmitTest' = [presubmitTest EXCEPT !.pc = "run", !.rebuilt = TRUE]
    /\ UNCHANGED <<presubmitVars, goPool, testScripts, nodeRun, goCmd>>

\* The test is run and its status file is written.
RunTests ==
    /\ presubmitTest.pc = "run"
    /\ \E outcome \in {"written", "RunTests failed", "no result", "not written"},
          cleanupOk \in BOOLEAN :
          presubmitTest' =
             Returned([presubmitTest EXCEPT !.ranTests = TRUE],
                      IF outcome = "written" THEN "nil" ELSE "error", cleanupOk)
    /\ UNCHANGED <<presubmitVars, goPool, testScripts, nodeRun, goCmd>>

RunTestNext ==
    \/ RunTestEnter
    \/ PrepareAttempt
    \/ RebuildDeveloperTools
    \/ RunTests

SpecRunTest == RunTestInit /\ [][RunTestNext]_vars

\* An attempt of preparePresubmitTestBranch succeeded.
SomeAttemptSucceeded ==
    \E j \in 1..Len(presubmitTest.attempts) : presubmitTest.attempts[j] = <<>>

\* C28: runTest rebuilds the tools and runs the test only after an attempt of
\* preparePresubmitTestBranch has succeeded.
C28_TestOnlyAfterPreparedBranch ==
    (presubmitTest.pc \in {"rebuild", "run"} \/ presubmitTest.rebuilt \/ presubmitTest.ranTests)
        => SomeAttemptSucceeded

\* There are at most prepareTestBranchAttempts attempts; an attempt follows
\* only an error with "unable to access"; a merge conflict is recorded only
\* for a last error with "git pull" and without "unable to access", after
\* which runTest has returned without running the test.
AttemptsAndMergeConflict ==
    /\ Len(presubmitTest.attempts) <= prepareTestBranchAttempts
    /\ \A j \in 1..(Len(presubmitTest.attempts) - 1) :
          ContainsString(presubmitTest.attempts[j], Str_unable_to_access)
    /\ presubmitTest.mergeConflictCL # 0 =>
          /\ presubmitTest.pc = "returned" /\ ~presubmitTest.ranTests
          /\ ContainsString(presubmitTest.attempts[Len(presubmitTest.attempts)], Str_git_pull)
          /\ ~ContainsString(presubmitTest.attempts[Len(presubmitTest.attempts)],
                             Str_unable_to_access)

----------------------------------------------------------------------------
(* goTest (src/unnamed/part_004): the exclusion rules applied to one package
   and what goTest does with the package. *)

MaxNames == 3
MaxRules == 2

\* regexp.MatchString for the patterns of the rules: a text matches where it
\* occurs, ".*" matches everywhere.
MatchString(re, s) == IF re = <<".", "*">> THEN TRUE ELSE ContainsString(s, re)

\* The names of tests, the packages and the patterns the inputs are drawn from.
TestFuncNames == { <<"T", "1">>, <<"T", "2">>, <<"T", "1", "2">> }
TestPkgs == { <<"a", "/", "b">>, <<"c">> }
ExclusionRules ==
    { [pkgRE |-> p, nameRE |-> n] :
         p \in { <<"a">>, <<".", "*">> }, n \in { <<"T", "1">>, <<"T", "2">>, <<".", "*">> } }

\* A variant in which a rule applies to the tests of every package.
filterExcludedTests_AnyPackage(pkg, testNames, excludedTests) ==
    LET matches(name) ==
            \E k \in 1..Len(excludedTests) : MatchString(excludedTests[k].nameRE, name)
        excluded == SelectSeq(testNames, matches)
        found(name) == \E k \in 1..Len(excluded) : name = excluded[k]
        notFound(name) == ~found(name)
        remaining == SelectSeq(testNames, notFound)
    IN  IF Len(excluded) = 0
        THEN [testThisPkg |-> TRUE, isNil |-> TRUE, remaining |-> <<>>, excluded |-> <<>>]
        ELSE [testThisPkg |-> Len(remaining) > 0, isNil |-> FALSE,
              remaining |-> remaining, excluded |-> excluded]

\* filterExcludedTests: whether to test the package, the tests to run (nil
\* for all of them) and the excluded tests.
filterExcludedTests(pkg, testNames, excludedTests) ==
    LET matches(name) ==
            \E k \in 1..Len(excludedTests) :
               /\ MatchString(excludedTests[k].pkgRE, pkg)
               /\ MatchString(excludedTests[k].nameRE, name)
        excluded == SelectSeq(testNames, matches)
        found(name) == \E k \in 1..Len(excluded) : name = excluded[k]
        notFound(name) == ~found(name)
        remaining == SelectSeq(testNames, notFound)
    IN  IF Len(excluded) = 0
        THEN [testThisPkg |-> TRUE, isNil |-> TRUE, remaining |-> <<>>, excluded |-> <<>>]
        ELSE [testThisPkg |-> Len(remaining) > 0, isNil |-> FALSE,
              remaining |-> remaining, excluded |-> excluded]

\* goTest has listed a package with its tests and has the exclusion rules.
FilterInit ==
    /\ \E pkg \in TestPkgs, testNames \in SeqsUpTo(TestFuncNames, MaxNames),
          rules \in SeqsUpTo(ExclusionRules, MaxRules) :
          goPool = [pc |-> "filter", pkg |-> pkg, testNames |-> testNames, rules |-> rules,
                    filtered |-> [testThisPkg |-> FALSE, isNil |-> TRUE,
                                  remaining |-> <<>>, excluded |-> <<>>],
                    tasks |-> <<>>, taskResults |-> <<>>, suites |-> <<>>,
                    excludedTests |-> <<>>]
    /\ PresubmitIdle
    /\ testScripts = NotRunning
    /\ nodeRun = NotRunning
    /\ goCmd = NotRunning
    /\ presubmitTest = NotRunning

\* The round of the distribution loop for the package: a task for a worker, or
\* the result "package excluded" without a run.
FilterAndDistribute ==
    /\ goPool.pc = "filter"
    /\ LET filtered == filterExcludedTests(goPool.pkg, goPool.testNames, goPool.rules)
       IN  goPool' =
              IF filtered.testThisPkg
              THEN [goPool EXCEPT
                      !.pc = "worker", !.filtered = filtered,
                      !.tasks = <<[pkg |-> goPool.pkg, specificTests |-> filtered.remaining,
                                   excludedTests |-> filtered.excluded]>>]
              ELSE [goPool EXCEPT
                      !.pc = "collect", !.filtered = filtered,
                      !.taskResults = <<[pkg |-> goPool.pkg, output |-> "package excluded",
                                         excluded |-> filtered.excluded,
                                         status |-> "testPassed"]>>]
    /\ UNCHANGED <<presubmitVars, testScripts, nodeRun, goCmd, presubmitTest>>

\* A worker runs the tests of the task.
RunPackageTests ==
    /\ goPool.pc = "worker"
    /\ \E ran \in {[output |-> "test output", status |-> "testPassed"],
                   [output |-> "test output", status |-> "testFailed"],
                   [output |-> "no test files", status |-> "testPassed"],
                   [output |-> "build output", status |-> "buildFailed"]} :
          goPool' = [goPool EXCEPT
                       !.pc = "collect", !.tasks = <<>>,
                       !.taskResults = <<[pkg |-> goPool.pkg, output |-> ran.output,
                                          excluded |-> goPool.tasks[1].excludedTests,
                                          status |-> ran.status]>>]
    /\ UNCHANGED <<presubmitVars, testScripts, nodeRun, goCmd, presubmitTest>>

\* The round of the collection loop for the result: a test suite unless the
\* output says "no test files" or "package excluded", and the excluded tests.
CollectPackageResult ==
    /\ goPool.pc = "collect"
    /\ LET result == goPool.taskResults[1]
           hasSuite == \/ result.status = "buildFailed"
                       \/ result.output \notin {"no test files", "package excluded"}
       IN  goPool' = [goPool EXCEPT
                        !.pc = "collected", !.taskResults = <<>>,
                        !.suites = IF hasSuite THEN <<result.pkg>> ELSE <<>>,
                        !.excludedTests = IF result.status # "buildFailed"
                                          THEN result.excluded ELSE <<>>]
    /\ UNCHANGED <<presubmitVars, testScripts, nodeRun, goCmd, presubmitTest>>

FilterNext ==
    \/ FilterAndDistribute
    \/ RunPackageTests
    \/ CollectPackageResult

SpecFilterExcludedTests == FilterInit /\ [][FilterNext]_vars

\* The name matches a rule of the package.
Excluded(name) ==
    \E k \in 1..Len(goPool.rules) :
       /\ MatchString(goPool.rules[k].pkgRE, goPool.pkg)
       /\ MatchString(goPool.rules[k].nameRE, name)

\* The positions of testNames whose name satisfies keep, as a sequence of names.
RECURSIVE NamesAt(_, _)
NamesAt(positions, names) ==
    IF positions = {} THEN <<>>
    ELSE LET last == CHOOSE j \in positions : \A k \in positions : k <= j
         IN  Append(NamesAt(positions \ {last}, names), names[last])

\* C24: with no test name of the package matching a rule the result is
\* (true, nil, nil); else remaining and excluded are the names that match no
\* rule and those that match one, each in the order of testNames, and the
\* package is to be tested exactly when a name remains; a package that is not
\* to be tested gets no task, is not run and has no test suite.
C24_ExcludedTestsPartition ==
    goPool.pc \in {"worker", "collect", "collected"} =>
        LET n == Len(goPool.testNames)
            out == {j \in 1..n : Excluded(goPool.testNames[j])}
            filtered == goPool.filtered
        IN  /\ out = {} =>
                 /\ filtered.testThisPkg /\ filtered.isNil
                 /\ filtered.remaining = <<>> /\ filtered.excluded = <<>>
            /\ out # {} =>
                 /\ ~filtered.isNil
                 /\ filtered.excluded = NamesAt(out, goPool.testNames)
                 /\ filtered.remaining = NamesAt((1..n) \ out, goPool.testNames)
                 /\ filtered.testThisPkg <=> filtered.remaining # <<>>
            /\ ~filtered.testThisPkg =>
                 /\ goPool.pc # "worker" /\ goPool.tasks = <<>>
                 /\ goPool.suites = <<>>
                 /\ goPool.pc = "collected" => goPool.excludedTests = filtered.excluded

\* A package all of whose tests are excluded was collected: no suite, and all
\* its tests reported as excluded.
C24_Witness ==
    /\ goPool.pc = "collected"
    /\ Len(goPool.testNames) >= 2
    /\ ~goPool.filtered.testThisPkg
    /\ goPool.excludedTests = goPool.testNames
    /\ goPool.suites = <<>>

----------------------------------------------------------------------------
(* identifyPackagesToTest (src/unnamed/part_004): the packages of one part of
   a test that is run in parts. *)

MaxParts == 2

\* The Go packages of the workspace, as go list prints them, and the package
\* patterns the configured parts and allPkgs are drawn from.
GoPackages == << <<"a">>, <<"a", "/", "b">>, <<"c">> >>
PkgPatterns ==
    { <<"a">>, <<"a", "/", ".", ".", ".">>, <<"a", "/", "b">>, <<"c">>, <<".", ".", ".">> }
AllPkgsLists ==
    { << <<".", ".", ".">> >>, << <<"a", "/", ".", ".", ".">> >>,
      << <<"a", "/", ".", ".", ".">>, <<"c">> >>, << <<"c">> >> }

\* go list: a pattern that ends with "..." stands for the packages under the
\* path before it, another pattern for the package of that path.
PatternMatches(pattern, pkg) ==
    IF pattern = <<".", ".", ".">> THEN TRUE
    ELSE IF HasSuffix(pattern, <<"/", ".", ".", ".">>)
    THEN LET dir == SubSeq(pattern, 1, Len(pattern) - 4)
         IN  pkg = dir \/ HasPrefix(pkg, dir \o <<"/">>)
    ELSE pkg = pattern

\* goutil.List: the packages of the patterns.
List(patterns) ==
    LET listed(pkg) == \E k \in 1..Len(patterns) : PatternMatches(patterns[k], pkg)
    IN  SelectSeq(GoPackages, listed)

\* A variant in which the last part gets all the packages of allPkgs.
identifyPackagesToTest_RestIsAll(parts, index, allPkgs, listOk) ==
    LET failed == [err |-> TRUE, pkgs |-> <<>>]
    IN  IF Len(parts) = 0 THEN [err |-> FALSE, pkgs |-> allPkgs]
        ELSE IF index = Len(parts)
        THEN IF ~listOk THEN failed ELSE [err |-> FALSE, pkgs |-> List(allPkgs)]
        ELSE IF index < Len(parts)
        THEN IF ~listOk THEN failed ELSE [err |-> FALSE, pkgs |-> List(<<parts[index + 1]>>)]
        ELSE failed

\* identifyPackagesToTest for the configured parts of the test and the part
\* index of the options; listOk tells whether go list can be run.
identifyPackagesToTest(parts, index, allPkgs, listOk) ==
    LET failed == [err |-> TRUE, pkgs |-> <<>>]
        curPkgs(k) == List(<<parts[k]>>)
        existingPartsPkgs ==
            UNION { {curPkgs(k)[m] : m \in 1..Len(curPkgs(k))} : k \in 1..Len(parts) }
        isRest(pkg) == pkg \notin existingPartsPkgs
    IN  IF Len(parts) = 0 THEN [err |-> FALSE, pkgs |-> allPkgs]
        ELSE IF index = Len(parts)
        THEN IF ~listOk THEN failed
             ELSE [err |-> FALSE, pkgs |-> SelectSeq(List(allPkgs), isRest)]
        ELSE IF index < Len(parts)
        THEN IF ~listOk THEN failed ELSE [err |-> FALSE, pkgs |-> List(<<parts[index + 1]>>)]
        ELSE failed

\* A test with its configured parts and the packages it is asked to test; no
\* part has asked for its packages yet.
IdentifyInit ==
    /\ \E parts \in SeqsUpTo(PkgPatterns, MaxParts), allPkgs \in AllPkgsLists,
          listOk \in BOOLEAN :
          goPool = [pc |-> "identify", parts |-> parts, allPkgs |-> allPkgs,
                    listOk |-> listOk, indices |-> {},
                    partPkgs |-> [index \in 0..(MaxParts + 1) |-> [err |-> FALSE, pkgs |-> <<>>]]]
    /\ PresubmitIdle
    /\ testScripts = NotRunning
    /\ nodeRun = NotRunning
    /\ goCmd = NotRunning
    /\ presubmitTest = NotRunning

\* The test is run with the part index of its options.
IdentifyPackages(index) ==
    /\ goPool.pc = "identify"
    /\ index \notin goPool.indices
    /\ goPool' = [goPool EXCEPT
                    !.indices = @ \cup {index},
                    !.partPkgs[index] =
                        identifyPackagesToTest(goPool.parts, index, goPool.allPkgs,
                                               goPool.listOk)]
    /\ UNCHANGED <<presubmitVars, testScripts, nodeRun, goCmd, presubmitTest>>

IdentifyNext == \E index \in 0..(MaxParts + 1) : IdentifyPackages(index)

SpecIdentifyPackages == IdentifyInit /\ [][IdentifyNext]_vars

\* The packages a part got, and the packages that a pattern of a list stands for.
PkgsOfPart(index) ==
    {goPool.partPkgs[index].pkgs[j] : j \in 1..Len(goPool.partPkgs[index].pkgs)}
PkgsOfPatterns(patterns) ==
    {GoPackages[j] : j \in {n \in 1..Len(GoPackages) :
                               \E k \in 1..Len(patterns) :
                                  PatternMatches(patterns[k], GoPackages[n])}}

\* C25: with N > 0 configured parts and go list at work, part i < N gets the
\* packages of the i-th configured part, part N the packages of allPkgs that
\* are in no configured part, and an index above N gets an error; without
\* configured parts the test gets allPkgs.  So the parts 0..N together have
\* every package of allPkgs, and part N has no package of another part.
C25_PartsCoverAllPackages ==
    goPool.pc = "identify" =>
        LET N == Len(goPool.parts)
            inParts == UNION {PkgsOfPatterns(<<goPool.parts[k]>>) : k \in 1..N}
        IN  /\ \A index \in goPool.indices :
                  IF N = 0
                  THEN goPool.partPkgs[index] = [err |-> FALSE, pkgs |-> goPool.allPkgs]
                  ELSE IF index > N THEN goPool.partPkgs[index].err
                  ELSE goPool.listOk =>
                          /\ ~goPool.partPkgs[index].err
                          /\ index < N =>
                                PkgsOfPart(index) = PkgsOfPatterns(<<goPool.parts[index + 1]>>)
                          /\ index = N =>
                                PkgsOfPart(index) = PkgsOfPatterns(goPool.allPkgs) \ inParts
            /\ (N > 0 /\ goPool.listOk /\ (0..N) \subseteq goPool.indices) =>
                  /\ PkgsOfPatterns(goPool.allPkgs)
                        \subseteq UNION {PkgsOfPart(index) : index \in 0..N}
                  /\ \A index \in 0..(N - 1) : PkgsOfPart(index) \cap PkgsOfPart(N) = {}

\* A test with two configured parts: each of the three parts has got packages,
\* and an index above got the error.
C25_Witness ==
    /\ goPool.pc = "identify"
    /\ Len(goPool.parts) = 2
    /\ goPool.listOk
    /\ goPool.indices = 0..3
    /\ \A index \in 0..2 : PkgsOfPart(index) # {}
    /\ goPool.partPkgs[3].err

====
